---------------------------- MODULE Spec2Model ----------------------------
(***************************************************************************)
(* A model of the IRC session engine of senpai (src/irc/session.go).       *)
(*                                                                         *)
(* Strings are sequences of byte values, so that casemapping and the       *)
(* chunking of a PRIVMSG are computed byte by byte as the code does.       *)
(* One action models one call of a public method of Session, or            *)
(* HandleMessage for one inbound message.  The variables op, ev, err and   *)
(* sent record what the caller of the last operation observed: the call,   *)
(* the returned event and error, and the messages pushed onto s.out.       *)
(***************************************************************************)
EXTENDS Integers, Sequences, FiniteSets, TLC

VARIABLES
    \* Session fields (session.go:108-148)
    registered, closed, nick, nickCf, user, host, auth, netID, enabledCaps,
    casemap, linelen, monitor, prefixModes, prefixSymbols,
    users, recs, channels, monitors,
    chBatches, chReqs, targetsBatchID, searchBatchID,
    \* s.targetsBatch.Targets, as the set of its keys, and s.searchBatch.Messages
    targetsBatch, searchBatch,
    typingStamps,
    \* s.typings: the pairs <<target, nick>>, casemapped, of the users typing
    typings,
    \* resources closed by Close: number of times each has been closed
    typingsClosed, outClosed,
    \* the clock read by time.Now(), in seconds
    now,
    \* what the last operation was and what its caller observed
    op, ev, err, sent, split, fault,
    \* the arguments drawn for the calls of splitChunks and PrivMsg
    arg,
    \* per casemapped target, a summary of the typing TAGMSGs pushed onto
    \* s.out and of the PrivMsg calls so far
    typingLog,
    \* per casemapped target, the history requests made and the CHATHISTORY
    \* commands pushed onto s.out since the last batch for it ended
    histLog,
    \* per joined channel, the end-of-names replies processed and the
    \* SelfJoinEvents returned since the self JOIN that created it
    joinLog,
    \* s.historyLimit
    historyLimit,
    \* the HistoryRequest being built: none or one, with its target and limit,
    \* and with the limit asked of WithLimit and the history limit it read
    request,
    \* the number of CAP END messages pushed onto s.out so far, up to MaxEnds
    capEnds,
    \* the number of RegisteredEvents returned so far, up to MaxEnds, in the
    \* specifications that count them, and NotCounted in the others
    regEvents,
    \* what the session sent that the server has not answered yet: the
    \* capabilities of its CAP REQs, the number of its AUTHENTICATE messages,
    \* and the challenges the server sent so far; tracked in the
    \* specifications that include the server
    unanswered

closeVars  == <<closed, typingsClosed, outClosed>>
idVars     == <<nick, nickCf, user, host, auth, netID>>
sessVars   == <<registered, closeVars, idVars>>
featVars   == <<casemap, linelen, monitor, prefixModes, prefixSymbols, historyLimit>>
rosterVars == <<users, recs, channels, monitors, joinLog>>
accVars    == <<targetsBatch, searchBatch>>
histVars   == <<chBatches, chReqs, targetsBatchID, searchBatchID, accVars, histLog,
                request>>
typVars    == <<typingStamps, typingLog, typings>>
vars       == <<sessVars, enabledCaps, featVars, rosterVars, histVars, typVars,
                now, arg, op, ev, err, sent, split, fault, capEnds, regEvents,
                unanswered>>

-----------------------------------------------------------------------------
(* Bounds of the model *)

\* longest message content given to splitChunks / PrivMsg
MaxLen == 6
\* largest chunk length given to splitChunks
MaxChunk == 5
\* number of User records that can be live at once
MaxUsers == 2
\* the CAP END messages and the RegisteredEvents counted
MaxEnds == 2
\* the count of a specification that does not count RegisteredEvents: one
\* above every count
NotCounted == MaxEnds + 1
\* the challenges a server sends in one SASL exchange before it concludes
MaxChallenges == 2
\* the server's side in a specification that leaves the server out
NotTracked == [tracked |-> FALSE, caps |-> {}, auths |-> 0, challenges |-> 0]
\* last second of the clock
MaxTime == 6

-----------------------------------------------------------------------------
(* Byte strings *)

Nil == "nil"

\* "m", the nickname and the username given to NewSession
NickM == <<109>>
\* "[" and "{": equal under rfc1459 casemapping, different under ascii
NameLB == <<91>>
NameLC == <<123>>
\* "b" and "B": equal under both casemappings
NameB  == <<98>>
NameUB == <<66>>

\* bytes of message contents: "a", the lead byte of a 2-byte character (0xC3),
\* the lead byte of a 4-byte character (0xF1), a continuation byte (0x80)
ContentBytes == {97, 195, 241, 128}

RECURSIVE StringsUpTo(_)
StringsUpTo(n) ==
    IF n = 0 THEN {<<>>}
    ELSE LET shorter == StringsUpTo(n - 1)
         IN  shorter \cup {Append(s, b) : s \in {t \in shorter : Len(t) = n - 1},
                                          b \in ContentBytes}

Contents == StringsUpTo(MaxLen)

RECURSIVE Concat(_)
Concat(ss) == IF ss = <<>> THEN <<>> ELSE Head(ss) \o Concat(Tail(ss))

\* Go's s[i:] and s[:i] for 0 <= i <= len(s)
SliceFrom(s, i) == SubSeq(s, i + 1, Len(s))
SliceTo(s, i)   == SubSeq(s, 1, i)

-----------------------------------------------------------------------------
(* Casemapping (the functions installed in Session.casemap) *)

CasemapByteASCII(b) == IF 65 <= b /\ b <= 90 THEN b + 32 ELSE b

CasemapByteRFC1459(b) ==
    IF 65 <= b /\ b <= 90 THEN b + 32
    ELSE IF b = 91 THEN 123
    ELSE IF b = 93 THEN 125
    ELSE IF b = 92 THEN 124
    ELSE IF b = 126 THEN 94
    ELSE b

CasemapASCII(name)   == [i \in DOMAIN name |-> CasemapByteASCII(name[i])]
CasemapRFC1459(name) == [i \in DOMAIN name |-> CasemapByteRFC1459(name[i])]

CasemapRaw(name) == name

\* s.casemap(name) / s.Casemap(name)
Casemap(name) ==
    IF casemap = "ascii" THEN CasemapASCII(name) ELSE CasemapRFC1459(name)

HasCapability(capability) == capability \in enabledCaps

-----------------------------------------------------------------------------
(* splitChunks *)

UTFMax == 4

\* utf8.RuneStart: b&0xC0 != 0x80
RuneStart(b) == ~(128 <= b /\ b <= 191)

\* the inner loop of splitChunks: for min <= i && !utf8.RuneStart(s[i]) { i-- }.
\* A result below 0 stands for the index or slice bound out of range that
\* the code runs into once i has passed the start of s.
RECURSIVE backOff(_, _, _)
backOffNone(s, i, min) == i
backOff(s, i, min) ==
    IF i >= 0 /\ min <= i /\ ~RuneStart(s[i + 1])
    THEN backOff(s, i - 1, min)
    ELSE i

\* the tail of splitChunks: if len(s) != 0 { chunks = append(chunks, s) }
lastChunkDropped(s, chunks) == chunks
lastChunk(s, chunks) == IF Len(s) # 0 THEN Append(chunks, s) ELSE chunks

\* the outer loop of splitChunks.  outcome is "return" when the function
\* returns chunks, "panic" when it indexes s out of range, and "loop" when
\* an iteration cuts an empty chunk (i = 0): s is then unchanged and the
\* same iteration repeats for ever.
RECURSIVE splitLoop(_, _, _)
splitLoop(s, chunkLen, chunks) ==
    IF ~(chunkLen < Len(s))
    THEN [outcome |-> "return", chunks |-> lastChunk(s, chunks)]
    ELSE LET i == backOff(s, chunkLen, chunkLen - UTFMax)
         IN  IF i < 0 THEN [outcome |-> "panic", chunks |-> chunks]
             ELSE IF i = 0 THEN [outcome |-> "loop", chunks |-> chunks]
             ELSE splitLoop(SliceFrom(s, i), chunkLen, Append(chunks, SliceTo(s, i)))

splitChunksWhole(s, chunkLen) == [outcome |-> "return", chunks |-> <<s>>]
splitChunks(s, chunkLen) ==
    IF chunkLen <= 0
    THEN [outcome |-> "return", chunks |-> <<s>>]
    ELSE splitLoop(s, chunkLen, <<>>)


-----------------------------------------------------------------------------
(* Go maps as functions with a growing and shrinking domain *)

EmptyMap == [k \in {} |-> Nil]
Put(m, k, v) == [x \in (DOMAIN m) \cup {k} |-> IF x = k THEN v ELSE m[x]]
Del(m, k) == [x \in (DOMAIN m) \ {k} |-> m[x]]

-----------------------------------------------------------------------------
(* Construction *)

\* SupportedCapabilities; NewSession requests each of them
SupportedCapabilities ==
    {"away-notify", "batch", "cap-notify", "echo-message", "invite-notify",
     "message-tags", "multi-prefix", "server-time", "sasl", "setname",
     "draft/chathistory", "draft/event-playback", "soju.im/bouncer-networks",
     "soju.im/read", "soju.im/search"}

\* endRegistration without its test of s.registered
endRegistrationOutUnguarded(isRegistered, id) ==
    IF id # <<>>
    THEN <<[cmd |-> "BOUNCER", sub |-> "BIND", id |-> id],
           [cmd |-> "CAP", sub |-> "END"]>>
    ELSE <<[cmd |-> "CAP", sub |-> "END"],
           [cmd |-> "BOUNCER", sub |-> "LISTNETWORKS"]>>

\* the messages endRegistration pushes onto s.out
endRegistrationOut(isRegistered, id) ==
    IF isRegistered THEN <<>>
    ELSE IF id # <<>>
    THEN <<[cmd |-> "BOUNCER", sub |-> "BIND", id |-> id],
           [cmd |-> "CAP", sub |-> "END"]>>
    ELSE <<[cmd |-> "CAP", sub |-> "END"],
           [cmd |-> "BOUNCER", sub |-> "LISTNETWORKS"]>>

\* the number of CAP END messages among msgs
capEndsIn(msgs) ==
    Cardinality({i \in 1..Len(msgs) : msgs[i] = [cmd |-> "CAP", sub |-> "END"]})

\* the count of CAP END messages after msgs were pushed onto the open channel
capEndsAfter(msgs) ==
    IF closed THEN capEnds
    ELSE IF capEnds + capEndsIn(msgs) > MaxEnds THEN MaxEnds
    ELSE capEnds + capEndsIn(msgs)

\* the messages NewSession pushes onto s.out.  authKind is "nil" (no
\* authenticator), "early" (Early() is true) or "late"; respondOk tells
\* whether Respond("+") succeeds.  The CAP REQs, sent in the iteration order
\* of a Go map, are kept as the set of requested capabilities.
\* NewSession starting SASL before it sends NICK and USER
NewSessionOutAuthFirst(nickname, username, id, authKind, respondOk) ==
    <<[cmd |-> "CAP", sub |-> "LS", arg |-> "302"],
      [cmd |-> "CAP", sub |-> "REQ", caps |-> SupportedCapabilities]>>
    \o (IF authKind = "early"
        THEN <<[cmd |-> "AUTHENTICATE", arg |-> "mech"],
               [cmd |-> "AUTHENTICATE", arg |-> IF respondOk THEN "res" ELSE "*"]>>
        ELSE <<>>)
    \o <<[cmd |-> "NICK", nick |-> nickname],
         [cmd |-> "USER", user |-> username]>>
    \o (IF authKind = "late" THEN <<>> ELSE endRegistrationOut(FALSE, id))
NewSessionOutEndsAlways(nickname, username, id, authKind, respondOk) ==
    <<[cmd |-> "CAP", sub |-> "LS", arg |-> "302"],
      [cmd |-> "CAP", sub |-> "REQ", caps |-> SupportedCapabilities],
      [cmd |-> "NICK", nick |-> nickname],
      [cmd |-> "USER", user |-> username]>>
    \o (IF authKind = "early"
        THEN <<[cmd |-> "AUTHENTICATE", arg |-> "mech"],
               [cmd |-> "AUTHENTICATE", arg |-> IF respondOk THEN "res" ELSE "*"]>>
        ELSE <<>>)
    \o endRegistrationOut(FALSE, id)
NewSessionOut(nickname, username, id, authKind, respondOk) ==
    <<[cmd |-> "CAP", sub |-> "LS", arg |-> "302"],
      [cmd |-> "CAP", sub |-> "REQ", caps |-> SupportedCapabilities],
      [cmd |-> "NICK", nick |-> nickname],
      [cmd |-> "USER", user |-> username]>>
    \o (IF authKind = "early"
        THEN <<[cmd |-> "AUTHENTICATE", arg |-> "mech"],
               [cmd |-> "AUTHENTICATE", arg |-> IF respondOk THEN "res" ELSE "*"]>>
        ELSE <<>>)
    \o (IF authKind = "late" THEN <<>> ELSE endRegistrationOut(FALSE, id))

NoEvent == [type |-> Nil]

\* no call of splitChunks has returned to the caller
NoSplit == [outcome |-> Nil, chunks |-> <<>>]

\* the heap of User records, all free
NoRecs == [id \in {} |-> Nil]

\* the state NewSession returns
NewSession(nickname, username, id, authKind, respondOk) ==
    /\ registered = FALSE
    /\ closed = FALSE
    /\ nick = nickname
    /\ nickCf = CasemapASCII(nickname)
    /\ user = username
    /\ host = <<>>
    /\ auth = IF authKind = "late" THEN "pending" ELSE Nil
    /\ netID = id
    /\ enabledCaps = {}
    /\ casemap = "rfc1459"
    /\ linelen = 512
    /\ monitor = FALSE
    /\ prefixModes = <<111, 118>>
    /\ prefixSymbols = <<64, 43>>
    /\ users = EmptyMap
    /\ recs = NoRecs
    /\ channels = EmptyMap
    /\ monitors = {}
    /\ chBatches = EmptyMap
    /\ chReqs = {}
    /\ targetsBatchID = <<>>
    /\ searchBatchID = <<>>
    /\ targetsBatch = {}
    /\ searchBatch = <<>>
    /\ typingStamps = EmptyMap
    /\ typingsClosed = 0
    /\ outClosed = 0
    /\ now = 0
    /\ op = [call |-> "NewSession", authKind |-> authKind, respondOk |-> respondOk]
    /\ ev = NoEvent
    /\ err = Nil
    /\ sent = NewSessionOut(nickname, username, id, authKind, respondOk)
    /\ split = NoSplit
    /\ fault = "none"
    /\ typingLog = EmptyMap
    /\ typings = {}
    /\ histLog = EmptyMap
    /\ joinLog = EmptyMap
    /\ historyLimit = 100
    /\ request = <<>>
    /\ capEnds = capEndsIn(NewSessionOut(nickname, username, id, authKind, respondOk))

\* the program runs: no call has panicked or hung
Alive == fault = "none"

\* the inbound messages with which a server answers an AUTHENTICATE
AuthenticateAnswers == {"AUTHENTICATE", "903", "902", "904", "905", "906", "907", "908"}

\* what is left unanswered after the session handled the message of call and
\* pushed msgs onto s.out: a CAP ACK or NAK answers the requests of the
\* capabilities it lists, an AUTHENTICATE or a SASL numeric answers one
\* AUTHENTICATE
unansweredAfter(call, msgs) ==
    IF ~unanswered.tracked THEN unanswered
    ELSE LET answered == IF call.cmd = "CAP" /\ call.sub \in {"ACK", "NAK"}
                         THEN {call.caps[i].Name : i \in DOMAIN call.caps}
                         ELSE {}
             one == IF call.cmd \in AuthenticateAnswers /\ unanswered.auths > 0
                    THEN 1 ELSE 0
             more == Cardinality({i \in DOMAIN msgs : msgs[i].cmd = "AUTHENTICATE"})
         IN  [tracked |-> TRUE,
              caps |-> unanswered.caps \ answered,
              auths |-> unanswered.auths - one + more,
              challenges |-> IF call.cmd = "AUTHENTICATE"
                                /\ unanswered.challenges < MaxChallenges
                             THEN unanswered.challenges + 1
                             ELSE unanswered.challenges]

\* the caller's view of an operation that returns: its call, the event and
\* error returned, and the messages pushed onto s.out (a send on the closed
\* channel panics)
Returns(call, event, error, msgs) ==
    /\ op' = call
    /\ ev' = event
    /\ err' = error
    /\ sent' = msgs
    /\ split' = NoSplit
    /\ fault' = IF closed /\ msgs # <<>> THEN "panic" ELSE fault
    /\ capEnds' = capEndsAfter(msgs)
    /\ regEvents' = IF event.type = "RegisteredEvent" /\ regEvents # NotCounted
                       /\ regEvents < MaxEnds
                    THEN regEvents + 1 ELSE regEvents
    /\ unanswered' = unansweredAfter(call, msgs)

\* a builder method returns nothing
Done(call, msgs) == Returns(call, NoEvent, Nil, msgs)

\* the caller's view of an operation that panics after pushing msgs onto s.out
Panics(call, msgs) ==
    /\ op' = call
    /\ ev' = NoEvent
    /\ err' = Nil
    /\ sent' = msgs
    /\ split' = NoSplit
    /\ fault' = "panic"
    /\ capEnds' = capEndsAfter(msgs)
    /\ UNCHANGED regEvents
    /\ unanswered' = unansweredAfter(call, msgs)


-----------------------------------------------------------------------------
(* ISUPPORT *)

\* unicode.MaxASCII
MaxASCII == 127

\* The features updateFeatures writes that the model keeps.  fault is set when
\* the slice expression of the PREFIX branch is out of range.
Features ==
    [casemap |-> casemap, linelen |-> linelen, monitor |-> monitor,
     prefixModes |-> prefixModes, prefixSymbols |-> prefixSymbols,
     historyLimit |-> historyLimit, fault |-> FALSE]

\* a PREFIX branch whose symbols start one byte early, at the ")"
prefixFeatureFromParen(f, value) ==
    LET numPrefixes == (Len(value) \div 2) - 1
    IN  IF Len(value) % 2 # 0 \/ numPrefixes + 1 < 1 THEN f
        ELSE [f EXCEPT !.prefixModes = SubSeq(value, 2, numPrefixes + 1),
                       !.prefixSymbols = SliceFrom(value, numPrefixes + 1)]

\* a PREFIX branch without the test of the value's length
prefixFeatureAnyLength(f, value) ==
    LET g == IF value = <<>>
             THEN [f EXCEPT !.prefixModes = <<>>, !.prefixSymbols = <<>>]
             ELSE f
        numPrefixes == (Len(value) \div 2) - 1
    IN  IF \E i \in 1..Len(value) : value[i] > MaxASCII THEN g
        ELSE IF numPrefixes + 1 < 1 THEN [g EXCEPT !.fault = TRUE]
        ELSE [g EXCEPT !.prefixModes = SubSeq(value, 2, numPrefixes + 1),
                       !.prefixSymbols = SliceFrom(value, numPrefixes + 2)]

\* the PREFIX branch of updateFeatures: value[1 : numPrefixes+1] and
\* value[numPrefixes+2:] with numPrefixes = len(value)/2 - 1
prefixFeature(f, value) ==
    LET g == IF value = <<>>
             THEN [f EXCEPT !.prefixModes = <<>>, !.prefixSymbols = <<>>]
             ELSE f
        numPrefixes == (Len(value) \div 2) - 1
    IN  IF Len(value) % 2 # 0 THEN g
        ELSE IF \E i \in 1..Len(value) : value[i] > MaxASCII THEN g
        ELSE IF numPrefixes + 1 < 1 THEN [g EXCEPT !.fault = TRUE]
        ELSE [g EXCEPT !.prefixModes = SubSeq(value, 2, numPrefixes + 1),
                       !.prefixSymbols = SliceFrom(value, numPrefixes + 2)]

\* the body of the loop of updateFeatures for one token <<KEY, value>>.  An
\* integer value stands for its decimal text, a PREFIX value is a byte string,
\* a CHATHISTORY value is what Atoi makes of it: <<n>>, or <<>> for an error.
updateFeature(f, key, value) ==
    IF key = "CASEMAPPING"
    THEN [f EXCEPT !.casemap = IF value = "ascii" THEN "ascii" ELSE "rfc1459"]
    ELSE IF key = "LINELEN"
    THEN (IF value \in Int /\ value # 0 THEN [f EXCEPT !.linelen = value] ELSE f)
    ELSE IF key = "MONITOR"
    THEN (IF value \in Int /\ value > 0 THEN [f EXCEPT !.monitor = TRUE] ELSE f)
    ELSE IF key = "PREFIX"
    THEN prefixFeature(f, value)
    ELSE IF key = "CHATHISTORY"
    THEN (IF value # <<>> THEN [f EXCEPT !.historyLimit = value[1]] ELSE f)
    ELSE f

RECURSIVE featuresAfter(_, _)
featuresAfter(f, features) ==
    IF features = <<>> \/ f.fault THEN f
    ELSE featuresAfter(updateFeature(f, Head(features)[1], Head(features)[2]),
                       Tail(features))

updateFeatures(features) ==
    LET f == featuresAfter(Features, features)
    IN  /\ casemap' = f.casemap
        /\ linelen' = f.linelen
        /\ monitor' = f.monitor
        /\ prefixModes' = f.prefixModes
        /\ prefixSymbols' = f.prefixSymbols
        /\ historyLimit' = f.historyLimit

\* HandleMessage for "005 <nick> <tokens> :are supported by this server"
IsupportTokens(features) ==
    /\ Alive
    /\ updateFeatures(features)
    /\ IF featuresAfter(Features, features).fault
       THEN Panics([call |-> "HandleMessage", cmd |-> "005", features |-> features],
                   <<>>)
       ELSE Returns([call |-> "HandleMessage", cmd |-> "005", features |-> features],
                    [type |-> "RegisteredEvent"], Nil, <<>>)
    /\ UNCHANGED <<sessVars, enabledCaps, rosterVars, histVars, typVars, now, arg>>

\* HandleMessage for "005 <nick> KEY=value :are supported by this server"
Isupport(key, value) ==
    /\ Alive
    /\ updateFeatures(<< <<key, value>> >>)
    /\ IF featuresAfter(Features, << <<key, value>> >>).fault
       THEN Panics([call |-> "HandleMessage", cmd |-> "005", key |-> key,
                    value |-> value], <<>>)
       ELSE Returns([call |-> "HandleMessage", cmd |-> "005", key |-> key,
                     value |-> value], [type |-> "RegisteredEvent"], Nil, <<>>)
    /\ UNCHANGED <<sessVars, enabledCaps, rosterVars, histVars, typVars, now, arg>>

-----------------------------------------------------------------------------
(* Capabilities *)

\* the capabilities a CAP ACK list enables and disables, in order.  An entry
\* is [Name, Enable], as ParseCaps returns it.
RECURSIVE capAckEnabled(_, _)
capAckEnabled(caps, enabled) ==
    IF caps = <<>> THEN enabled
    ELSE capAckEnabled(Tail(caps),
                       IF Head(caps).Enable THEN enabled \cup {Head(caps).Name}
                                            ELSE enabled \ {Head(caps).Name})

\* the messages the entries of a CAP ACK list push onto s.out; names lists
\* the joined channels in the order the map iteration yields them
RECURSIVE capAckOut(_, _)
capAckOut(caps, names) ==
    IF caps = <<>> THEN <<>>
    ELSE (IF auth # Nil /\ Head(caps).Name = "sasl"
          THEN <<[cmd |-> "AUTHENTICATE", arg |-> "mech"]>>
          ELSE IF DOMAIN channels # {} /\ Head(caps).Name = "multi-prefix"
          THEN [i \in 1..Len(names) |-> [cmd |-> "NAMES", channel |-> names[i]]]
          ELSE <<>>)
         \o capAckOut(Tail(caps), names)

\* the sequences that list every element of a set once
Orders(S) == {q \in [1..Cardinality(S) -> S] : \A x \in S : \E i \in DOMAIN q : q[i] = x}

\* HandleMessage for "CAP <nick> ACK :<caps>"
CapAck(caps) ==
    /\ Alive
    /\ enabledCaps' = capAckEnabled(caps, enabledCaps)
    /\ \E names \in Orders(DOMAIN channels) :
          Returns([call |-> "HandleMessage", cmd |-> "CAP", sub |-> "ACK", caps |-> caps],
                  NoEvent, Nil, capAckOut(caps, names))
    /\ UNCHANGED <<sessVars, featVars, rosterVars, histVars, typVars, now, arg>>

\* HandleMessage for "CAP <nick> DEL :<caps>"
CapDel(caps) ==
    /\ Alive
    /\ enabledCaps' = enabledCaps \ {caps[i].Name : i \in DOMAIN caps}
    /\ Returns([call |-> "HandleMessage", cmd |-> "CAP", sub |-> "DEL", caps |-> caps],
               NoEvent, Nil, <<>>)
    /\ UNCHANGED <<sessVars, featVars, rosterVars, histVars, typVars, now, arg>>

-----------------------------------------------------------------------------
(* The token bucket of golang.org/x/time/rate, in thirds of a token *)

Burst == 5
TypingInterval == 3

Min(a, b) == IF a < b THEN a ELSE b

\* rate.NewLimiter(limit, Burst), limit3 being 3 * limit tokens per second.
\* A new limiter grants a full burst whenever it is first used; a bucket
\* that is full says the same.
NewLimiter(limit3) == [limit3 |-> limit3, tokens3 |-> 3 * Burst, last |-> 0]

\* Limiter.advance: the tokens at time t
Advance(lim, t) == Min(3 * Burst, lim.tokens3 + (t - lim.last) * lim.limit3)

\* Limiter.Reserve at time t: takes a token, into debt when none is left
Reserve(lim, t) == [lim EXCEPT !.tokens3 = Advance(lim, t) - 3, !.last = t]

\* Limiter.Allow at time t: whether a token is there, and the limiter after
\* the call (unchanged when it is refused)
AllowOk(lim, t) == Advance(lim, t) - 3 >= 0
AfterAllow(lim, t) == IF AllowOk(lim, t) THEN Reserve(lim, t) ELSE lim

-----------------------------------------------------------------------------
(* Outbound typing notifications *)

NoLog == [last |-> Nil, activeAt |-> -1, activeGap |-> -1, consecGap |-> -1,
          donesSinceActive |-> 0, donesSinceReset |-> 0]

LogOf(k) == IF k \in DOMAIN typingLog THEN typingLog[k] ELSE NoLog

\* a TAGMSG +typing=active for key k is pushed onto s.out at time now
LogActive(k) ==
    LET l == LogOf(k)
    IN  Put(typingLog, k,
            [last |-> "active", activeAt |-> now,
             activeGap |-> IF l.activeAt >= 0 THEN now - l.activeAt ELSE -1,
             consecGap |-> IF l.last = "active" THEN now - l.activeAt ELSE -1,
             donesSinceActive |-> 0, donesSinceReset |-> 0])

\* a TAGMSG +typing=done for key k is pushed onto s.out
LogDone(k) ==
    LET l == LogOf(k)
    IN  Put(typingLog, k,
            [l EXCEPT !.last = "done",
                      !.donesSinceActive = Min(l.donesSinceActive + 1, 2),
                      !.donesSinceReset = Min(l.donesSinceReset + 1, 2)])

\* PrivMsg is called for a target of key k
LogPrivMsg(k) ==
    Put(typingLog, k, [LogOf(k) EXCEPT !.last = "privmsg", !.donesSinceReset = 0])

\* the early return of Typing once the capability is there
typingSuppressedNoInterval(targetCf) ==
    /\ targetCf \in DOMAIN typingStamps
    /\ ~AllowOk(typingStamps[targetCf].Limit, now)
typingSuppressed(targetCf) ==
    /\ targetCf \in DOMAIN typingStamps
    /\ \/ /\ typingStamps[targetCf].Type = "active"
          /\ now - typingStamps[targetCf].Last < TypingInterval
       \/ ~AllowOk(typingStamps[targetCf].Limit, now)

Typing(target) ==
    LET targetCf == Casemap(target)
        send == HasCapability("message-tags") /\ ~typingSuppressed(targetCf)
        limit == IF targetCf \in DOMAIN typingStamps
                 THEN AfterAllow(typingStamps[targetCf].Limit, now)
                 ELSE Reserve(NewLimiter(1), now)
    IN  /\ Alive
        /\ IF send
           THEN /\ typingStamps' = Put(typingStamps, targetCf,
                                       [Last |-> now, Type |-> "active", Limit |-> limit])
                /\ typingLog' = LogActive(targetCf)
                /\ UNCHANGED typings
           ELSE UNCHANGED typVars
        /\ Done([call |-> "Typing", target |-> target],
                IF send THEN <<[cmd |-> "TAGMSG", target |-> target, typing |-> "active"]>>
                        ELSE <<>>)
        /\ UNCHANGED <<sessVars, enabledCaps, featVars, rosterVars, histVars, now, arg>>

\* the early return of TypingStop once the capability is there
typingStopSuppressedNoType(targetCf) ==
    /\ targetCf \in DOMAIN typingStamps
    /\ ~AllowOk(typingStamps[targetCf].Limit, now)
typingStopSuppressed(targetCf) ==
    /\ targetCf \in DOMAIN typingStamps
    /\ \/ typingStamps[targetCf].Type = "done"
       \/ ~AllowOk(typingStamps[targetCf].Limit, now)

TypingStop(target) ==
    LET targetCf == Casemap(target)
        send == HasCapability("message-tags") /\ ~typingStopSuppressed(targetCf)
        limit == IF targetCf \in DOMAIN typingStamps
                 THEN AfterAllow(typingStamps[targetCf].Limit, now)
                 ELSE Reserve(NewLimiter(3), now)
    IN  /\ Alive
        /\ IF send
           THEN /\ typingStamps' = Put(typingStamps, targetCf,
                                       [Last |-> now, Type |-> "done", Limit |-> limit])
                /\ typingLog' = LogDone(targetCf)
                /\ UNCHANGED typings
           ELSE UNCHANGED typVars
        /\ Done([call |-> "TypingStop", target |-> target],
                IF send THEN <<[cmd |-> "TAGMSG", target |-> target, typing |-> "done"]>>
                        ELSE <<>>)
        /\ UNCHANGED <<sessVars, enabledCaps, featVars, rosterVars, histVars, now, arg>>

\* a second of time.Now() passes
Tick ==
    /\ Alive
    /\ now < MaxTime
    /\ now' = now + 1
    /\ UNCHANGED <<sessVars, enabledCaps, featVars, rosterVars, histVars, typVars,
                   arg, op, ev, err, sent, split, fault, capEnds, regEvents, unanswered>>

-----------------------------------------------------------------------------
(* Outbound PRIVMSG *)

\* maxMessageLen of PrivMsg
maxMessageLen(target) ==
    linelen - 16 - Len(nick) - Len(user)
            - (IF Len(host) = 0 THEN 15 ELSE Len(host)) - Len(target)

PrivMsg(target, content) ==
    LET r == splitChunks(content, maxMessageLen(target))
        msgs == [i \in 1..Len(r.chunks) |->
                    [cmd |-> "PRIVMSG", target |-> target, text |-> r.chunks[i]]]
    IN  /\ Alive
        /\ op' = [call |-> "PrivMsg", target |-> target, content |-> content]
        /\ ev' = NoEvent
        /\ err' = Nil
        /\ split' = NoSplit
        /\ IF r.outcome = "return"
           THEN /\ sent' = msgs
                /\ fault' = IF closed /\ msgs # <<>> THEN "panic" ELSE fault
                /\ IF closed /\ msgs # <<>>
                   THEN UNCHANGED typVars
                   ELSE /\ typingStamps' = Del(typingStamps, Casemap(target))
                        /\ typingLog' = LogPrivMsg(Casemap(target))
                        /\ UNCHANGED typings
           ELSE /\ sent' = <<>>
                /\ fault' = r.outcome
                /\ UNCHANGED typVars
        /\ UNCHANGED <<sessVars, enabledCaps, featVars, rosterVars, histVars,
                       now, arg, capEnds, regEvents, unanswered>>

\* splitChunks applied to the arguments drawn
SplitCall ==
    /\ Alive
    /\ op' = [call |-> "splitChunks", s |-> arg.s, chunkLen |-> arg.chunkLen]
    /\ split' = splitChunks(arg.s, arg.chunkLen)
    /\ ev' = NoEvent
    /\ err' = Nil
    /\ sent' = <<>>
    /\ UNCHANGED <<sessVars, enabledCaps, featVars, rosterVars, histVars, typVars,
                   now, arg, fault, capEnds, regEvents, unanswered>>

\* the LINELEN with which PrivMsg to a one-byte target has a budget of
\* chunkLen bytes: 16 bytes of framing, the one-byte nick and user, the
\* 15 bytes assumed for an unknown host, and the target
LineLenFor(chunkLen) == 16 + Len(NickM) + Len(NickM) + 15 + Len(NameB) + chunkLen

\* the inputs are drawn here: a content and a chunk length
InitSplit ==
    /\ regEvents = NotCounted
    /\ unanswered = NotTracked
    /\ NewSession(NickM, NickM, <<>>, "nil", TRUE)
    /\ arg \in [s : Contents, chunkLen : (-1)..MaxChunk]

NextSplit ==
    \/ SplitCall
    \/ Isupport("LINELEN", LineLenFor(arg.chunkLen))
    \/ PrivMsg(NameB, arg.s)

SpecSplit == InitSplit /\ [][NextSplit]_vars


-----------------------------------------------------------------------------
(* UTF-8, decoded independently of splitChunks *)

\* number of bytes of the character a lead byte starts; 0 for a byte that
\* starts none
CharWidth(b) ==
    IF b < 128 THEN 1
    ELSE IF 194 <= b /\ b <= 223 THEN 2
    ELSE IF 224 <= b /\ b <= 239 THEN 3
    ELSE IF 240 <= b /\ b <= 244 THEN 4
    ELSE 0

IsContinuation(b) == 128 <= b /\ b <= 191

\* the offsets (from 0) at which a character of s begins, decoding s from
\* offset p on; Len(s) + 1 is added when s is not well-formed from p on
RECURSIVE CharStartsFrom(_, _)
CharStartsFrom(s, p) ==
    IF p = Len(s) THEN {}
    ELSE LET w == CharWidth(s[p + 1])
         IN  IF /\ w > 0
                /\ p + w <= Len(s)
                /\ \A k \in 1..(w - 1) : IsContinuation(s[p + 1 + k])
             THEN {p} \cup CharStartsFrom(s, p + w)
             ELSE {Len(s) + 1}

ValidUTF8(s) == (Len(s) + 1) \notin CharStartsFrom(s, 0)

\* the offsets in the concatenation at which one chunk ends and the next begins
Boundaries(chunks) ==
    {Len(Concat(SubSeq(chunks, 1, k))) : k \in 1..(Len(chunks) - 1)}

SplitReturned == op.call = "splitChunks" /\ split.outcome = "return"

\* C6: every chunk that splitChunks(s, M) returns for a positive M is at most
\* M bytes long, and so is the text of every PRIVMSG that PrivMsg emits when
\* its budget maxMessageLen is positive.
C6_ChunksWithinLimit ==
    /\ (SplitReturned /\ op.chunkLen > 0) =>
          \A i \in 1..Len(split.chunks) : Len(split.chunks[i]) <= op.chunkLen
    /\ (op.call = "PrivMsg" /\ maxMessageLen(op.target) > 0) =>
          \A i \in 1..Len(sent) : Len(sent[i].text) <= maxMessageLen(op.target)

\* a content was cut in several chunks, and PrivMsg emitted several PRIVMSGs
C6_Witness ==
    SplitReturned /\ op.chunkLen > 0 /\ Len(split.chunks) >= 2 /\ Len(op.s) = MaxLen

C6_WitnessPrivMsg ==
    op.call = "PrivMsg" /\ maxMessageLen(op.target) > 0 /\ Len(sent) >= 2

\* C7: for every chunk length M, positive or not, the chunks splitChunks(s, M)
\* returns, concatenated in order, are s.
C7_ConcatIsInput == SplitReturned => Concat(split.chunks) = op.s

\* a content cut in three chunks or more
C7_Witness == SplitReturned /\ Len(split.chunks) >= 3

\* C8: for well-formed UTF-8 s and positive M, every boundary between two
\* consecutive chunks returned by splitChunks(s, M) is the offset at which a
\* character of s begins.
C8_BoundariesOnCharStarts ==
    (SplitReturned /\ op.chunkLen > 0 /\ ValidUTF8(op.s)) =>
        Boundaries(split.chunks) \subseteq CharStartsFrom(op.s, 0)

\* a cut that was moved back: the byte at offset M continues a character, so
\* the first chunk is shorter than M
C8_Witness ==
    /\ SplitReturned /\ op.chunkLen > 0 /\ ValidUTF8(op.s)
    /\ Len(split.chunks) >= 2
    /\ Len(split.chunks[1]) < op.chunkLen
    /\ IsContinuation(op.s[op.chunkLen + 1])

\* C36 as stated: for every s and every positive M, splitChunks(s, M)
\* terminates and returns no empty chunk.
C36_SplitTerminates ==
    (op.call = "splitChunks" /\ op.chunkLen > 0) =>
        /\ split.outcome = "return"
        /\ \A i \in 1..Len(split.chunks) : split.chunks[i] # <<>>

\* C36, what holds: for positive M a call of splitChunks(s, M) that returns
\* returns no empty chunk; it returns for every well-formed s none of whose
\* characters is wider than M bytes; for a well-formed s with a wider
\* character it either returns or cuts an empty chunk and repeats the same
\* iteration for ever, and it does the latter when the first character of s
\* is wider than M.
C36_SplitTerminatesOnFittingChars ==
    (op.call = "splitChunks" /\ op.chunkLen > 0) =>
        /\ split.outcome = "return" =>
              \A i \in 1..Len(split.chunks) : split.chunks[i] # <<>>
        /\ ValidUTF8(op.s) =>
              /\ split.outcome \in {"return", "loop"}
              /\ (\A i \in 1..Len(op.s) : CharWidth(op.s[i]) <= op.chunkLen) =>
                    split.outcome = "return"
              /\ (op.s # <<>> /\ CharWidth(op.s[1]) > op.chunkLen) =>
                    split.outcome = "loop"

\* splitChunks("\xc3\x80", 1): the cut falls back to offset 0 and the call
\* does not return
C36_Witness ==
    /\ op.call = "splitChunks" /\ op.chunkLen = 1
    /\ op.s = <<195, 128>> /\ ValidUTF8(op.s)
    /\ split.outcome = "loop"

-----------------------------------------------------------------------------
(* Typing notifications: Typing, TypingStop and PrivMsg over time *)

TypingTargets == {NameLB, NameLC}

\* the lists ParseCaps returns for an ACK of +message-tags and of -message-tags
TypingAcks == {<<[Name |-> "message-tags", Enable |-> enable]>> : enable \in BOOLEAN}

InitTyping ==
    /\ regEvents = NotCounted
    /\ unanswered = NotTracked
    /\ NewSession(NickM, NickM, <<>>, "nil", TRUE)
    /\ arg = Nil

NextTyping ==
    \/ \E target \in TypingTargets : Typing(target)
    \/ \E target \in TypingTargets : TypingStop(target)
    \/ \E target \in TypingTargets, content \in {<<>>, <<97>>} : PrivMsg(target, content)
    \/ Tick
    \/ \E caps \in TypingAcks : CapAck(caps)

SpecTyping == InitTyping /\ [][NextTyping]_vars


\* C4 as claimed: any two TAGMSG +typing=active for the same casemapped
\* target, whatever was called between them, are at least 3 seconds apart.
C4_AnyTwoActivesApart ==
    \A k \in DOMAIN typingLog :
        typingLog[k].activeGap = -1 \/ typingLog[k].activeGap >= TypingInterval

\* C4 amended: two TAGMSG +typing=active for the same casemapped target with
\* no TAGMSG +typing=done and no PrivMsg call for that target between them
\* are at least 3 seconds apart.
C4_ConsecutiveActivesApart ==
    \A k \in DOMAIN typingLog :
        typingLog[k].consecGap = -1 \/ typingLog[k].consecGap >= TypingInterval

\* an active TAGMSG was followed, with nothing else for the target between,
\* by a second one
C4_Witness ==
    \E k \in DOMAIN typingLog :
        /\ typingLog[k].consecGap >= TypingInterval
        /\ op.call = "Typing" /\ Len(sent) = 1

\* whether TypingStop, called again for the target of the last call, pushes
\* a TAGMSG
SecondStopSends ==
    HasCapability("message-tags") /\ ~typingStopSuppressed(Casemap(op.target))

-----------------------------------------------------------------------------
(* The heap of User records.  s.users and Channel.Members hold pointers    *)
(* to User, here the index of the record in recs; a record no pointer      *)
(* reaches is collected.                                                   *)

UserIds == 1..MaxUsers

\* the records s.users or the members of a channel point to
Reachable(us, chs) ==
    {us[k] : k \in DOMAIN us} \cup UNION {DOMAIN chs[c].Members : c \in DOMAIN chs}

Collect(rs, us, chs) == [id \in (DOMAIN rs) \cap Reachable(us, chs) |-> rs[id]]

FreeIds == UserIds \ DOMAIN recs

\* where &User{...} allocates
NewId == CHOOSE id \in FreeIds : \A other \in FreeIds : id <= other

\* &User{Name: &Prefix{Name: name}}
NewUser(name) == [Name |-> name, Disconnected |-> FALSE]

-----------------------------------------------------------------------------
(* Close, and the inbound messages of registration *)

\* Session.Close without its test of s.closed
CloseUnguarded ==
    /\ closed' = TRUE
    /\ typingsClosed' = Min(typingsClosed + 1, 2)
    /\ outClosed' = Min(outClosed + 1, 2)
\* Session.Close
Close ==
    IF closed
    THEN UNCHANGED closeVars
    ELSE /\ closed' = TRUE
         /\ typingsClosed' = typingsClosed + 1
         /\ outClosed' = outClosed + 1

\* a call of Close by the owner of the session
CloseCall ==
    /\ Alive
    /\ Close
    /\ Done([call |-> "Close", again |-> closed], <<>>)
    /\ UNCHANGED <<registered, idVars, enabledCaps, featVars, rosterVars, histVars,
                   typVars, now, arg>>

\* HandleMessage for "ERROR :<reason>"
Error ==
    /\ Alive
    /\ Close
    /\ Returns([call |-> "HandleMessage", cmd |-> "ERROR", again |-> closed],
               NoEvent, Nil, <<>>)
    /\ UNCHANGED <<registered, idVars, enabledCaps, featVars, rosterVars, histVars,
                   typVars, now, arg>>

\* the test of HandleMessage that routes a message
routedRegisteredNever == FALSE
routedRegistered == registered

\* msg.errNotEnoughParams
NotEnoughParams == "errNotEnoughParams"

\* the default case of handleMessageRegistered for a numeric reply
defaultReply(call, params) ==
    IF Len(params) < 2
    THEN Returns(call, NoEvent, NotEnoughParams, <<>>)
    ELSE Returns(call, [type |-> "ErrorEvent", Code |-> call.cmd], Nil, <<>>)

\* HandleMessage for "433 <client> <nick> :Nickname is already in use"
NickInUse(params) ==
    LET call == [call |-> "HandleMessage", cmd |-> "433", params |-> params]
    IN  /\ Alive
        /\ IF routedRegistered
           THEN defaultReply(call, params)
           ELSE IF Len(params) < 2
           THEN Returns(call, NoEvent, NotEnoughParams, <<>>)
           ELSE Returns(call, NoEvent, Nil,
                        <<[cmd |-> "NICK", nick |-> params[2] \o <<95>>]>>)
        /\ UNCHANGED <<sessVars, enabledCaps, featVars, rosterVars, histVars,
                       typVars, now, arg>>

\* HandleMessage for "903 <client> :SASL authentication successful"
SaslSuccess(params) ==
    LET call == [call |-> "HandleMessage", cmd |-> "903", params |-> params]
    IN  /\ Alive
        /\ IF routedRegistered
           THEN defaultReply(call, params)
           ELSE Returns(call, NoEvent, Nil,
                        IF auth # Nil THEN endRegistrationOut(registered, netID)
                                      ELSE <<>>)
        /\ UNCHANGED <<sessVars, enabledCaps, featVars, rosterVars, histVars,
                       typVars, now, arg>>

\* errNicklocked, errSaslfail, errSasltoolong, errSaslaborted, errSaslalready
\* and rplSaslmechs: the numerics answered like errSaslfail
SaslFailNumerics == {"902", "904", "905", "906", "907", "908"}

\* the SASL failure numerics without the call of endRegistration
saslFailOutNothing(hasAuth, isRegistered, id) == <<>>
\* what the SASL failure numerics push onto s.out
saslFailOut(hasAuth, isRegistered, id) ==
    IF hasAuth THEN endRegistrationOut(isRegistered, id) ELSE <<>>

\* HandleMessage for "<code> <client> :<text>", code a SASL failure numeric.
\* The event's Message is built from msg.Params[1:].
SaslFailure(code, params) ==
    /\ Alive
    /\ IF Len(params) < 1
       THEN Panics([call |-> "HandleMessage", cmd |-> code, params |-> params],
                   saslFailOut(auth # Nil, registered, netID))
       ELSE Returns([call |-> "HandleMessage", cmd |-> code, params |-> params],
                    [type |-> "ErrorEvent", Code |-> code, Severity |-> "fail",
                     Message |-> SliceFrom(params, 1)], Nil,
                    saslFailOut(auth # Nil, registered, netID))
    /\ UNCHANGED <<sessVars, enabledCaps, featVars, rosterVars, histVars,
                   typVars, now, arg>>

\* HandleMessage for "904 <client> :SASL authentication failed"
SaslFail(params) == SaslFailure("904", params)

\* HandleMessage for "001 <nick> :Welcome"
Welcome(params) ==
    LET call == [call |-> "HandleMessage", cmd |-> "001", params |-> params]
    IN  /\ Alive
        /\ IF Len(params) < 1
           THEN /\ Returns(call, NoEvent, NotEnoughParams, <<>>)
                /\ UNCHANGED <<registered, nick, nickCf, users, recs>>
           ELSE LET us == Put(users, Casemap(params[1]), NewId)
                IN  /\ FreeIds # {}
                    /\ nick' = params[1]
                    /\ nickCf' = Casemap(params[1])
                    /\ registered' = TRUE
                    /\ users' = us
                    /\ recs' = Collect(Put(recs, NewId, NewUser(params[1])),
                                       us, channels)
                    /\ Returns(call, NoEvent, Nil,
                               IF host = <<>>
                               THEN <<[cmd |-> "WHO", mask |-> params[1]]>>
                               ELSE <<>>)
        /\ UNCHANGED <<closeVars, user, host, auth, netID, enabledCaps, featVars,
                       channels, monitors, joinLog, histVars, typVars, now, arg>>

\* HandleMessage for "PING <payload>"
Ping(params) ==
    LET call == [call |-> "HandleMessage", cmd |-> "PING", params |-> params]
    IN  /\ Alive
        /\ IF Len(params) < 1
           THEN Returns(call, NoEvent, NotEnoughParams, <<>>)
           ELSE Returns(call, NoEvent, Nil, <<[cmd |-> "PONG", payload |-> params[1]]>>)
        /\ UNCHANGED <<sessVars, enabledCaps, featVars, rosterVars, histVars,
                       typVars, now, arg>>

\* the list ParseCaps returns for an ACK of sasl
SaslAck == <<[Name |-> "sasl", Enable |-> TRUE]>>

\* the parameter lists of the inbound messages of SpecReg
RegParams == {<<>>, <<NickM>>, <<NickM, NameB>>}

InitReg ==
    /\ regEvents = NotCounted
    /\ unanswered = NotTracked
    /\ \E id \in {<<>>, <<49>>}, authKind \in {"nil", "early", "late"},
          respondOk \in BOOLEAN :
          NewSession(NickM, NickM, id, authKind, respondOk)
    /\ arg = Nil

NextReg ==
    \/ CloseCall
    \/ Error
    \/ \E params \in RegParams : Welcome(params)
    \/ \E params \in RegParams : NickInUse(params)
    \/ \E params \in RegParams : SaslSuccess(params)
    \/ \E code \in SaslFailNumerics, params \in RegParams : SaslFailure(code, params)
    \/ \E params \in RegParams : Ping(params)
    \/ CapAck(SaslAck)

SpecReg == InitReg /\ [][NextReg]_vars

\* C9: Close is idempotent: whatever number of Close calls and inbound ERROR
\* messages were processed, the closed flag is set after any of them, and the
\* typing tracker and the output channel have each been closed exactly once
\* (and not at all before the first of them).
C9_CloseOnce ==
    /\ closed => typingsClosed = 1 /\ outClosed = 1
    /\ ~closed => typingsClosed = 0 /\ outClosed = 0
    /\ (op.call = "Close" \/ (op.call = "HandleMessage" /\ op.cmd = "ERROR")) => closed

\* an explicit Close of a session that was already closed
C9_Witness ==
    /\ op.call = "Close" /\ op.again
    /\ closed /\ typingsClosed = 1 /\ outClosed = 1

\* C10: the session is unregistered at construction; registered changes only
\* by becoming true while a 001 is processed; and a 433 or 903 processed by a
\* registered session is not handled by handleUnregistered: no NICK retry and
\* no end of registration is pushed onto s.out, the message gets the default
\* treatment of a numeric reply.
C10_RegisteredForGood ==
    /\ ~registered
    /\ [][registered' # registered =>
             registered' /\ op'.call = "HandleMessage" /\ op'.cmd = "001"]_vars
    /\ [](registered /\ op.call = "HandleMessage" /\ op.cmd \in {"433", "903"} =>
             /\ sent = <<>>
             /\ \/ ev.type = "ErrorEvent" /\ ev.Code = op.cmd
                \/ err = NotEnoughParams)

\* a registered session was told its nick is in use and returned an error
\* event without retrying
C10_Witness ==
    /\ registered /\ op.call = "HandleMessage" /\ op.cmd = "433"
    /\ ev.type = "ErrorEvent" /\ sent = <<>>

\* the message m was pushed onto s.out by the last operation
Pushed(m) == \E i \in DOMAIN sent : sent[i] = m

\* the last operation pushed AUTHENTICATE <mechanism> and, right after it,
\* AUTHENTICATE with the response of the authenticator or with "*"
SaslStarted ==
    \E i \in DOMAIN sent :
        /\ sent[i] = [cmd |-> "AUTHENTICATE", arg |-> "mech"]
        /\ i + 1 \in DOMAIN sent
        /\ sent[i + 1].cmd = "AUTHENTICATE"
        /\ sent[i + 1].arg \in {"res", "*"}

CapEnd == [cmd |-> "CAP", sub |-> "END"]

\* C11 as stated: NewSession starts SASL when the authenticator is eager and
\* pushes CAP END in every other case, that of an authenticator that is not
\* eager included.
C11_EndUnlessEager ==
    op.call = "NewSession" =>
        /\ op.authKind = "early" => SaslStarted
        /\ op.authKind # "early" => Pushed(CapEnd)

\* C11: NewSession with an eager authenticator pushes AUTHENTICATE
\* <mechanism>, then AUTHENTICATE <response> ("*" when Respond fails), and
\* then ends capability negotiation; with no authenticator it pushes no
\* AUTHENTICATE and ends capability negotiation; with an authenticator that is
\* not eager it pushes neither AUTHENTICATE nor CAP END and keeps the
\* authenticator.
C11_EndUnlessAuthPending ==
    op.call = "NewSession" =>
        /\ op.authKind = "early" =>
              /\ SaslStarted /\ Pushed(CapEnd) /\ auth = Nil
              /\ Pushed([cmd |-> "AUTHENTICATE", arg |-> "res"]) <=> op.respondOk
        /\ op.authKind = "nil" =>
              /\ Pushed(CapEnd) /\ auth = Nil
              /\ \A i \in DOMAIN sent : sent[i].cmd # "AUTHENTICATE"
        /\ op.authKind = "late" =>
              /\ ~Pushed(CapEnd) /\ auth # Nil
              /\ \A i \in DOMAIN sent : sent[i].cmd # "AUTHENTICATE"

\* a session constructed with an authenticator that is not eager: no CAP END
C11_Witness ==
    op.call = "NewSession" /\ op.authKind = "late" /\ ~Pushed(CapEnd)

\* C21: a SASL failure numeric that carries its <client> parameter, handled
\* by an open session while an authenticator is pending and the session is not
\* registered, pushes
\* CAP END exactly once and returns an ErrorEvent of severity fail with the
\* numeric as its code and a nil error.
C21_SaslFailureEndsNegotiation ==
    (/\ op.call = "HandleMessage" /\ op.cmd \in SaslFailNumerics
     /\ Len(op.params) >= 1 /\ auth # Nil /\ ~registered /\ ~closed) =>
        /\ Cardinality({i \in DOMAIN sent : sent[i] = CapEnd}) = 1
        /\ ev.type = "ErrorEvent" /\ ev.Severity = "fail" /\ ev.Code = op.cmd
        /\ err = Nil /\ fault = "none"

C21_Witness ==
    /\ op.call = "HandleMessage" /\ op.cmd = "908" /\ op.params = <<NickM, NameB>>
    /\ auth # Nil /\ ~registered /\ ~closed /\ netID # <<>>
    /\ sent = <<[cmd |-> "BOUNCER", sub |-> "BIND", id |-> netID], CapEnd>>
    /\ ev.type = "ErrorEvent" /\ ev.Severity = "fail" /\ err = Nil

\* the last operation called endRegistration: NewSession without an
\* authenticator or with an eager one, a 903 handled by handleUnregistered
\* with an authenticator pending, a SASL failure numeric with an authenticator
\* pending
Finalizes ==
    \/ op.call = "NewSession" /\ op.authKind # "late"
    \/ /\ op.call = "HandleMessage" /\ auth # Nil
       /\ \/ op.cmd = "903" /\ ~registered
          \/ op.cmd \in SaslFailNumerics

\* the messages of finalization among those pushed, in order
RECURSIVE Finalization(_)
Finalization(msgs) ==
    IF msgs = <<>> THEN <<>>
    ELSE IF Head(msgs).cmd = "BOUNCER" \/ Head(msgs) = CapEnd
    THEN <<Head(msgs)>> \o Finalization(Tail(msgs))
    ELSE Finalization(Tail(msgs))

\* C28: an operation that finalizes registration pushes, for a session that
\* is not registered, BOUNCER BIND <id> and CAP END and no BOUNCER
\* LISTNETWORKS when the session is bound to a network id, and CAP END followed
\* by BOUNCER LISTNETWORKS and no BOUNCER BIND when it is not; for a registered
\* session it pushes none of them; no other operation pushes any of them.
C28_FinalizationBranches ==
    Finalization(sent) =
        IF ~Finalizes \/ registered THEN <<>>
        ELSE IF netID # <<>>
        THEN <<[cmd |-> "BOUNCER", sub |-> "BIND", id |-> netID], CapEnd>>
        ELSE <<CapEnd, [cmd |-> "BOUNCER", sub |-> "LISTNETWORKS"]>>

\* a SASL failure numeric handled by a registered session with an
\* authenticator pending pushed nothing
C28_Witness ==
    /\ op.call = "HandleMessage" /\ op.cmd \in SaslFailNumerics
    /\ auth # Nil /\ registered /\ fault = "none"
    /\ sent = <<>>

\* the commands NewSession pushes after its bootstrap: the SASL exchange and
\* the finalization of registration
AfterBootstrap(msg) ==
    msg.cmd \in {"AUTHENTICATE", "BOUNCER"} \/ msg = CapEnd

\* C29: the messages NewSession pushes are, in this order, CAP LS 302, the
\* CAP REQs that name each supported capability once, NICK with the
\* session's nickname, USER with its username, and after these only
\* AUTHENTICATE, CAP END and BOUNCER messages: the two AUTHENTICATE of an
\* eager authenticator come before the finalization, and a session whose
\* authenticator is not eager pushes nothing after USER.
C29_BootstrapOrder ==
    op.call = "NewSession" =>
        /\ Len(sent) >= 4
        /\ sent[1] = [cmd |-> "CAP", sub |-> "LS", arg |-> "302"]
        /\ sent[2] = [cmd |-> "CAP", sub |-> "REQ", caps |-> SupportedCapabilities]
        /\ sent[3] = [cmd |-> "NICK", nick |-> nick]
        /\ sent[4] = [cmd |-> "USER", user |-> user]
        /\ \A i \in 1..Len(sent) : AfterBootstrap(sent[i]) <=> i > 4
        /\ \A i, j \in 5..Len(sent) :
              sent[i].cmd = "AUTHENTICATE" /\ sent[j].cmd # "AUTHENTICATE" => i < j
        /\ Len(sent) = CASE op.authKind = "late" -> 4
                         [] op.authKind = "early" -> 8
                         [] OTHER -> 6

\* a session bound to a network, built with an eager authenticator whose
\* response fails: the abort of the exchange and the bind follow USER
C29_Witness ==
    /\ op.call = "NewSession" /\ op.authKind = "early" /\ ~op.respondOk
    /\ netID # <<>>
    /\ SubSeq(sent, 5, Len(sent)) =
          <<[cmd |-> "AUTHENTICATE", arg |-> "mech"],
            [cmd |-> "AUTHENTICATE", arg |-> "*"],
            [cmd |-> "BOUNCER", sub |-> "BIND", id |-> netID], CapEnd>>

\* C34 as stated: over any sequence of inbound messages CAP END is pushed at
\* most once per session.
C34_CapEndAtMostOnce == capEnds <= 1

\* C34, what holds: no operation pushes more than one CAP END; a session
\* without a pending authenticator pushed exactly one, at construction; a
\* registered session pushes none; and after construction CAP END is pushed
\* only by a SASL terminal numeric (903 before the welcome, or a failure
\* numeric) handled with an authenticator pending, once for each of them.
C34_CapEndPerTerminalNumeric ==
    /\ [](/\ capEndsIn(sent) <= 1
          /\ auth = Nil => capEnds = 1)
    /\ [][/\ capEndsIn(sent') = 1 =>
                /\ ~registered /\ auth # Nil
                /\ op'.call = "HandleMessage"
                /\ op'.cmd \in SaslFailNumerics \cup {"903"}
          /\ (/\ ~registered /\ auth # Nil /\ ~closed /\ fault = "none"
              /\ op'.call = "HandleMessage"
              /\ op'.cmd \in SaslFailNumerics \cup {"903"}) =>
                capEndsIn(sent') = 1]_vars

\* a second SASL terminal numeric before the welcome pushed a second CAP END
C34_Witness ==
    /\ capEnds = 2 /\ ~registered /\ auth # Nil /\ fault = "none"
    /\ op.call = "HandleMessage" /\ op.cmd = "903"
    /\ Pushed(CapEnd)

-----------------------------------------------------------------------------
(* Chat history requests and the batches that answer them *)

NoHistLog == [reqs |-> 0, sent |-> 0, ended |-> FALSE]

HistLogOf(k) == IF k \in DOMAIN histLog THEN histLog[k] ELSE NoHistLog

\* doRequest is called for key k with the capability enabled
LogRequest(k, send) ==
    LET l == HistLogOf(k)
    IN  Put(histLog, k, [l EXCEPT !.reqs = Min(l.reqs + 1, 2),
                                  !.sent = IF send THEN Min(l.sent + 1, 2) ELSE l.sent])

\* a batch that answers the requests for key k has ended
LogBatchEnd(k) == Put(histLog, k, [NoHistLog EXCEPT !.ended = TRUE])

\* the test of doRequest for a request in flight
requestOutstandingNever(targetCf) == FALSE
requestOutstanding(targetCf) == targetCf \in chReqs

\* HistoryRequest.doRequest for a request with the limit.  The bounds of the
\* command are left out of the message.
doRequestWith(target, command, limit) ==
    LET targetCf == Casemap(target)
        enabled == HasCapability("draft/chathistory")
        send == enabled /\ ~requestOutstanding(targetCf)
    IN  /\ Alive
        /\ chReqs' = IF send THEN chReqs \cup {targetCf} ELSE chReqs
        /\ histLog' = IF enabled THEN LogRequest(targetCf, send) ELSE histLog
        /\ Done([call |-> "doRequest", command |-> command, target |-> target],
                IF send
                THEN <<[cmd |-> "CHATHISTORY", sub |-> command, target |-> target,
                        limit |-> limit]>>
                ELSE <<>>)
        /\ UNCHANGED <<sessVars, enabledCaps, featVars, rosterVars, chBatches,
                       targetsBatchID, searchBatchID, accVars, typVars, now, arg>>

\* doRequest for a request built by NewHistoryRequest in the same call chain
doRequest(target, command) ==
    /\ doRequestWith(target, command, historyLimit)
    /\ UNCHANGED request

\* WithLimit storing the limit asked whatever the history limit
withLimitUnclamped(limit, limitInForce) == limit

\* the limit WithLimit stores
withLimit(limit, limitInForce) ==
    IF limit < limitInForce THEN limit ELSE limitInForce

\* Session.NewHistoryRequest(target), the request kept by the caller
NewHistoryRequest(target) ==
    /\ Alive
    /\ request' = <<[target |-> target, limit |-> historyLimit,
                     asked |-> <<>>, read |-> historyLimit]>>
    /\ Done([call |-> "NewHistoryRequest", target |-> target], <<>>)
    /\ UNCHANGED <<sessVars, enabledCaps, featVars, rosterVars, chBatches, chReqs,
                   targetsBatchID, searchBatchID, accVars, histLog, typVars, now, arg>>

\* HistoryRequest.WithLimit(limit) on the request kept
WithLimit(limit) ==
    /\ Alive
    /\ request # <<>>
    /\ request' = <<[request[1] EXCEPT !.limit = withLimit(limit, historyLimit),
                                       !.asked = <<limit>>,
                                       !.read = historyLimit]>>
    /\ Done([call |-> "WithLimit", limit |-> limit], <<>>)
    /\ UNCHANGED <<sessVars, enabledCaps, featVars, rosterVars, chBatches, chReqs,
                   targetsBatchID, searchBatchID, accVars, histLog, typVars, now, arg>>

\* HistoryRequest.After(t) and Before(t) on the request kept
RequestAfter ==
    /\ request # <<>>
    /\ doRequestWith(request[1].target, "AFTER", request[1].limit)
    /\ UNCHANGED request

RequestBefore ==
    /\ request # <<>>
    /\ doRequestWith(request[1].target, "BEFORE", request[1].limit)
    /\ UNCHANGED request

\* HistoryRequest.Targets(start, end) on the request kept: r.target = ""
RequestTargets ==
    /\ request # <<>>
    /\ doRequestWith(<<>>, "TARGETS", request[1].limit)
    /\ request' = <<[request[1] EXCEPT !.target = <<>>]>>

\* NewHistoryRequest(target).After(t)
After(target) == doRequest(target, "AFTER")

\* NewHistoryRequest(target).Before(t)
Before(target) == doRequest(target, "BEFORE")

\* NewHistoryRequest(target).Targets(start, end)
Targets == doRequest(<<>>, "TARGETS")

\* HandleMessage for "BATCH +<id> <name> [<target>]"
BatchStart(id, name, target) ==
    /\ Alive
    /\ chBatches' = IF name = "chathistory"
                    THEN Put(chBatches, id, [Target |-> target, Messages |-> <<>>])
                    ELSE chBatches
    /\ targetsBatchID' = IF name = "draft/chathistory-targets" THEN id
                         ELSE targetsBatchID
    /\ searchBatchID' = IF name = "soju.im/search" THEN id ELSE searchBatchID
    /\ targetsBatch' = IF name = "draft/chathistory-targets" THEN {} ELSE targetsBatch
    /\ searchBatch' = IF name = "soju.im/search" THEN <<>> ELSE searchBatch
    /\ Returns([call |-> "HandleMessage", cmd |-> "BATCH", start |-> TRUE, id |-> id,
                name |-> name, target |-> target], NoEvent, Nil, <<>>)
    /\ UNCHANGED <<sessVars, enabledCaps, featVars, rosterVars, chReqs, histLog,
                   request, typVars, now, arg>>

\* HandleMessage for "BATCH -<id>"
BatchEnd(id) ==
    LET call == [call |-> "HandleMessage", cmd |-> "BATCH", start |-> FALSE, id |-> id]
    IN  /\ Alive
        /\ IF id \in DOMAIN chBatches
           THEN LET targetCf == Casemap(chBatches[id].Target)
                IN  /\ chBatches' = Del(chBatches, id)
                    /\ chReqs' = chReqs \ {targetCf}
                    /\ histLog' = LogBatchEnd(targetCf)
                    /\ Returns(call, [type |-> "HistoryEvent",
                                      Target |-> chBatches[id].Target,
                                      Messages |-> chBatches[id].Messages], Nil, <<>>)
                    /\ UNCHANGED <<targetsBatchID, searchBatchID>>
           ELSE IF targetsBatchID = id
           THEN /\ targetsBatchID' = <<>>
                /\ chReqs' = chReqs \ {<<>>}
                /\ histLog' = LogBatchEnd(<<>>)
                /\ Returns(call, [type |-> "HistoryTargetsEvent",
                                  Targets |-> targetsBatch], Nil, <<>>)
                /\ UNCHANGED <<chBatches, searchBatchID>>
           ELSE IF searchBatchID = id
           THEN /\ searchBatchID' = <<>>
                /\ Returns(call, [type |-> "SearchEvent",
                                  Messages |-> searchBatch], Nil, <<>>)
                /\ UNCHANGED <<chBatches, chReqs, histLog, targetsBatchID>>
           ELSE /\ Returns(call, NoEvent, Nil, <<>>)
                /\ UNCHANGED histVars
        /\ UNCHANGED <<sessVars, enabledCaps, featVars, rosterVars, accVars, request,
                       typVars, now, arg>>

\* the batch references of the inbound BATCH messages, "1" and "2"
BatchIds == {<<49>>, <<50>>}

BatchNames == {"chathistory", "draft/chathistory-targets", "soju.im/search"}

\* the lists ParseCaps returns for an ACK of +draft/chathistory and of
\* -draft/chathistory
HistAcks == {<<[Name |-> "draft/chathistory", Enable |-> enable]>> : enable \in BOOLEAN}

HistTargets == {NameLB, NameLC}

InitHist ==
    /\ regEvents = NotCounted
    /\ unanswered = NotTracked
    /\ NewSession(NickM, NickM, <<>>, "nil", TRUE)
    /\ arg = Nil

NextHist ==
    \/ \E target \in HistTargets : After(target)
    \/ \E target \in HistTargets : Before(target)
    \/ Targets
    \/ \E id \in BatchIds, target \in HistTargets :
          BatchStart(id, "chathistory", target)
    \/ \E id \in BatchIds, name \in BatchNames \ {"chathistory"} :
          BatchStart(id, name, <<>>)
    \/ \E id \in BatchIds : BatchEnd(id)
    \/ \E caps \in HistAcks : CapAck(caps)
    \/ \E value \in {"ascii", "rfc1459"} : Isupport("CASEMAPPING", value)

SpecHist == InitHist /\ [][NextHist]_vars

\* C3: with draft/chathistory enabled, of the history requests issued for one
\* casemapped target since the last batch for that target ended (or since
\* construction) exactly one pushed a CHATHISTORY command: the first one.  So
\* a repeated request pushes nothing, and the first request after the end of
\* the batch pushes a command again.
C3_OneRequestInFlight ==
    /\ \A k \in DOMAIN histLog : histLog[k].reqs >= 1 => histLog[k].sent = 1
    /\ (op.call = "doRequest" /\ HasCapability("draft/chathistory")) =>
          Len(sent) = (IF histLog[Casemap(op.target)].reqs = 1 THEN 1 ELSE 0)

\* a batch for the target has ended, the request after it pushed a command
\* and the one after that, the last call, pushed nothing
C3_Witness ==
    /\ op.call = "doRequest" /\ HasCapability("draft/chathistory")
    /\ Casemap(op.target) \in DOMAIN histLog
    /\ histLog[Casemap(op.target)].ended
    /\ histLog[Casemap(op.target)].reqs = 2
    /\ histLog[Casemap(op.target)].sent = 1
    /\ sent = <<>>

-----------------------------------------------------------------------------
(* The roster: users, channels and their members *)

\* Session.IsMe
IsMe(name) == nickCf = Casemap(name)

\* Channel{Name: name, Members: map[*User]string{}}
NewChannel(name) == [Name |-> name, Members |-> EmptyMap, complete |-> FALSE]

\* the channels of chs the record u is a member of
ChannelsOf(u, chs) == {c \in DOMAIN chs : u \in DOMAIN chs[c].Members}

\* chs once the record u has left the channels of cs
WithoutMember(chs, cs, u) ==
    [c \in DOMAIN chs |->
        IF c \in cs THEN [chs[c] EXCEPT !.Members = Del(@, u)] ELSE chs[c]]

\* whether cleanUser returns before its delete, the channels being chs:
\* without the test of s.monitors
cleanUserKeepsUnmonitored(parted, chs) == ChannelsOf(parted, chs) # {}
\* whether cleanUser returns before its delete, the channels being chs
cleanUserKeeps(parted, chs) ==
    \/ Casemap(recs[parted].Name) \in monitors
    \/ ChannelsOf(parted, chs) # {}

\* s.users after cleanUser has run for every record of parted
cleanUser(parted, chs) ==
    LET gone == {Casemap(recs[u].Name) : u \in {v \in parted : ~cleanUserKeeps(v, chs)}}
    IN  [k \in (DOMAIN users) \ gone |-> users[k]]

NoJoinLog == [ends |-> 0, events |-> 0]

\* HandleMessage for ":<name> JOIN <channel>"
Join(name, channel) ==
    LET whoCf == Casemap(name)
        channelCf == Casemap(channel)
        call == [call |-> "HandleMessage", cmd |-> "JOIN", prefix |-> name,
                 channel |-> channel]
    IN  /\ Alive
        /\ IF IsMe(whoCf)
           THEN LET chs == Put(channels, channelCf, NewChannel(channel))
                IN  /\ channels' = chs
                    /\ recs' = Collect(recs, users, chs)
                    /\ joinLog' = Put(joinLog, channelCf, NoJoinLog)
                    /\ UNCHANGED users
                    /\ Returns(call, NoEvent, Nil,
                               IF HasCapability("away-notify")
                               THEN <<[cmd |-> "WHO", mask |-> channel]>>
                               ELSE <<>>)
           ELSE IF channelCf \in DOMAIN channels
           THEN LET known == whoCf \in DOMAIN users
                    u == IF known THEN users[whoCf] ELSE NewId
                IN  /\ known \/ FreeIds # {}
                    /\ users' = Put(users, whoCf, u)
                    /\ recs' = IF known THEN recs ELSE Put(recs, u, NewUser(name))
                    /\ channels' = [channels EXCEPT
                                       ![channelCf].Members = Put(@, u, <<>>)]
                    /\ UNCHANGED joinLog
                    /\ Returns(call, [type |-> "UserJoinEvent", User |-> name,
                                      Channel |-> channels[channelCf].Name], Nil, <<>>)
           ELSE /\ UNCHANGED <<users, recs, channels, joinLog>>
                /\ Returns(call, NoEvent, Nil, <<>>)
        /\ UNCHANGED <<sessVars, enabledCaps, featVars, monitors, histVars, typVars,
                       now, arg>>

\* s.typings.Done(target, name) and s.typings.Active(target, name)
typingsDone(targetCf, whoCf) == typings \ {<<targetCf, whoCf>>}
typingsActive(targetCf, whoCf) == typings \cup {<<targetCf, whoCf>>}

\* what PART and KICK do once the message is parsed: who leaves channel, the
\* event naming the user as shown
leave(call, who, channel, shown) ==
    LET whoCf == Casemap(who)
        channelCf == Casemap(channel)
    IN  IF IsMe(whoCf)
        THEN IF channelCf \in DOMAIN channels
             THEN LET chs == Del(channels, channelCf)
                      parted == DOMAIN channels[channelCf].Members
                      us == cleanUser(parted, chs)
                  IN  /\ channels' = chs
                      /\ users' = us
                      /\ recs' = Collect(recs, us, chs)
                      /\ joinLog' = Del(joinLog, channelCf)
                      /\ UNCHANGED typings
                      /\ Returns([call EXCEPT !.parted = parted],
                                 [type |-> "SelfPartEvent",
                                  Channel |-> channels[channelCf].Name], Nil, <<>>)
             ELSE /\ UNCHANGED <<users, recs, channels, joinLog, typings>>
                  /\ Returns(call, NoEvent, Nil, <<>>)
        ELSE IF channelCf \in DOMAIN channels /\ whoCf \in DOMAIN users
        THEN LET u == users[whoCf]
                 chs == WithoutMember(channels, {channelCf}, u)
                 us == cleanUser({u}, chs)
             IN  /\ channels' = chs
                 /\ users' = us
                 /\ recs' = Collect(recs, us, chs)
                 /\ UNCHANGED joinLog
                 /\ typings' = typingsDone(channelCf, whoCf)
                 /\ Returns([call EXCEPT !.parted = {u} \cap DOMAIN channels[channelCf].Members],
                            [type |-> "UserPartEvent",
                             User |-> IF shown = Nil THEN recs[u].Name ELSE shown,
                             Channel |-> channels[channelCf].Name], Nil, <<>>)
        ELSE /\ UNCHANGED <<users, recs, channels, joinLog, typings>>
             /\ Returns(call, NoEvent, Nil, <<>>)

\* HandleMessage for ":<name> PART <channel>"
Part(name, channel) ==
    /\ Alive
    /\ leave([call |-> "HandleMessage", cmd |-> "PART", prefix |-> name,
              channel |-> channel, parted |-> {}], name, channel, Nil)
    /\ UNCHANGED <<sessVars, enabledCaps, featVars, monitors, histVars, typingStamps,
                   typingLog, now, arg>>

\* HandleMessage for "KICK <channel> <name>"
Kick(channel, name) ==
    /\ Alive
    /\ leave([call |-> "HandleMessage", cmd |-> "KICK", nick |-> name,
              channel |-> channel, parted |-> {}], name, channel, name)
    /\ UNCHANGED <<sessVars, enabledCaps, featVars, monitors, histVars, typingStamps,
                   typingLog, now, arg>>

\* the QUIT handler without its call of s.typings.Done
quitTypingsKept(left, whoCf) == typings
\* the typing state after QUIT removed the user from the channels left
quitTypings(left, whoCf) == typings \ {<<c, whoCf>> : c \in left}

\* HandleMessage for ":<name> QUIT"
Quit(name) ==
    LET whoCf == Casemap(name)
        call == [call |-> "HandleMessage", cmd |-> "QUIT", prefix |-> name,
                 parted |-> {}]
    IN  /\ Alive
        /\ IF whoCf \in DOMAIN users
           THEN LET u == users[whoCf]
                    left == ChannelsOf(u, channels)
                    chs == WithoutMember(channels, left, u)
                    us == IF left = {} THEN users ELSE cleanUser({u}, chs)
                IN  /\ channels' = chs
                    /\ typings' = quitTypings(left, whoCf)
                    /\ users' = us
                    /\ recs' = Collect([recs EXCEPT ![u].Disconnected = TRUE], us, chs)
                    /\ Returns([call EXCEPT !.parted = IF left = {} THEN {} ELSE {u}],
                               [type |-> "UserQuitEvent", User |-> recs[u].Name,
                                Channels |-> {channels[c].Name : c \in left}],
                               Nil, <<>>)
           ELSE /\ UNCHANGED <<users, recs, channels, typings>>
                /\ Returns(call, NoEvent, Nil, <<>>)
        /\ UNCHANGED <<sessVars, enabledCaps, featVars, monitors, joinLog, histVars,
                       typingStamps, typingLog, now, arg>>

\* the loop of rplNamreply over the entries [Name, PowerLevel] that
\* ParseNameReply returns: the users, the records and the members after it,
\* and whether the heap had room for the records it allocates
RECURSIVE namesLoop(_, _, _, _)
namesLoop(names, us, rs, members) ==
    IF names = <<>>
    THEN [users |-> us, recs |-> rs, members |-> members, ok |-> TRUE]
    ELSE LET whoCf == Casemap(Head(names).Name)
             known == whoCf \in DOMAIN us
             free == UserIds \ DOMAIN rs
             u == IF known THEN us[whoCf]
                  ELSE CHOOSE id \in free : \A other \in free : id <= other
         IN  IF ~known /\ free = {}
             THEN [users |-> us, recs |-> rs, members |-> members, ok |-> FALSE]
             ELSE namesLoop(Tail(names), Put(us, whoCf, u),
                            IF known THEN rs ELSE Put(rs, u, NewUser(Head(names).Name)),
                            Put(members, u, Head(names).PowerLevel))

\* HandleMessage for "353 <client> <symbol> <channel> :<names>"
Namreply(channel, names) ==
    LET channelCf == Casemap(channel)
        call == [call |-> "HandleMessage", cmd |-> "353", channel |-> channel,
                 names |-> names]
    IN  /\ Alive
        /\ IF channelCf \in DOMAIN channels
           THEN LET after == namesLoop(names, users, recs, channels[channelCf].Members)
                IN  /\ after.ok
                    /\ users' = after.users
                    /\ recs' = after.recs
                    /\ channels' = [channels EXCEPT ![channelCf].Members = after.members]
           ELSE UNCHANGED <<users, recs, channels>>
        /\ Returns(call, NoEvent, Nil, <<>>)
        /\ UNCHANGED <<sessVars, enabledCaps, featVars, monitors, joinLog, histVars,
                       typVars, now, arg>>

\* the test of rplEndofnames on the channel found: without it
endOfNamesFirstAlways(c) == TRUE
\* the test of rplEndofnames on the channel found
endOfNamesFirst(c) == ~c.complete

\* HandleMessage for "366 <client> <channel> :End of /NAMES list"
EndOfNames(channel) ==
    LET channelCf == Casemap(channel)
        call == [call |-> "HandleMessage", cmd |-> "366", channel |-> channel]
    IN  /\ Alive
        /\ IF channelCf \in DOMAIN channels
           THEN LET first == endOfNamesFirst(channels[channelCf])
                    l == joinLog[channelCf]
                IN  /\ channels' = IF first
                                   THEN [channels EXCEPT ![channelCf].complete = TRUE]
                                   ELSE channels
                    /\ joinLog' = Put(joinLog, channelCf,
                                      [ends |-> Min(l.ends + 1, 2),
                                       events |-> IF first THEN Min(l.events + 1, 2)
                                                           ELSE l.events])
                    /\ Returns(call,
                               IF first
                               THEN [type |-> "SelfJoinEvent",
                                     Channel |-> channels[channelCf].Name]
                               ELSE NoEvent, Nil, <<>>)
           ELSE /\ UNCHANGED <<channels, joinLog>>
                /\ Returns(call, NoEvent, Nil, <<>>)
        /\ UNCHANGED <<sessVars, enabledCaps, featVars, users, recs, monitors,
                       histVars, typVars, now, arg>>

\* HandleMessage for ":<name> NICK <newNick>"
Nick(name, newNick) ==
    LET whoCf == Casemap(name)
        newNickCf == Casemap(newNick)
        call == [call |-> "HandleMessage", cmd |-> "NICK", prefix |-> name,
                 nick |-> newNick]
    IN  /\ Alive
        /\ IF whoCf \in DOMAIN users
           THEN LET u == users[whoCf]
                    us == Put(Del(users, whoCf), newNickCf, u)
                IN  /\ users' = us
                    /\ recs' = Collect([recs EXCEPT ![u].Name = newNick], us, channels)
                    /\ IF IsMe(name)
                       THEN /\ nick' = newNick
                            /\ nickCf' = newNickCf
                            /\ Returns(call, [type |-> "SelfNickEvent",
                                              FormerNick |-> name], Nil, <<>>)
                       ELSE /\ UNCHANGED <<nick, nickCf>>
                            /\ Returns(call, [type |-> "UserNickEvent", User |-> newNick,
                                              FormerNick |-> name], Nil, <<>>)
           ELSE /\ UNCHANGED <<users, recs, nick, nickCf>>
                /\ Returns(call, NoEvent, Nil, <<>>)
        /\ UNCHANGED <<registered, closeVars, user, host, auth, netID, enabledCaps,
                       featVars, channels, monitors, joinLog, histVars, typVars,
                       now, arg>>

MonitorAddUnguarded(target) ==
    LET targetCf == Casemap(target)
    IN  /\ Alive
        /\ monitors' = monitors \cup {targetCf}
        /\ Done([call |-> "MonitorAdd", target |-> target],
                IF monitor
                THEN <<[cmd |-> "MONITOR", sub |-> "+", target |-> target]>>
                ELSE <<>>)
        /\ UNCHANGED <<sessVars, enabledCaps, featVars, users, recs, channels,
                       joinLog, histVars, typVars, now, arg>>

\* Session.MonitorAdd
MonitorAdd(target) ==
    LET targetCf == Casemap(target)
    IN  /\ Alive
        /\ monitors' = monitors \cup {targetCf}
        /\ Done([call |-> "MonitorAdd", target |-> target],
                IF targetCf \notin monitors /\ monitor
                THEN <<[cmd |-> "MONITOR", sub |-> "+", target |-> target]>>
                ELSE <<>>)
        /\ UNCHANGED <<sessVars, enabledCaps, featVars, users, recs, channels,
                       joinLog, histVars, typVars, now, arg>>

\* Session.MonitorRemove
MonitorRemove(target) ==
    LET targetCf == Casemap(target)
    IN  /\ Alive
        /\ monitors' = monitors \ {targetCf}
        /\ Done([call |-> "MonitorRemove", target |-> target],
                IF targetCf \in monitors /\ monitor
                THEN <<[cmd |-> "MONITOR", sub |-> "-", target |-> target]>>
                ELSE <<>>)
        /\ UNCHANGED <<sessVars, enabledCaps, featVars, users, recs, channels,
                       joinLog, histVars, typVars, now, arg>>

\* rplMononline and rplMonoffline for one target: the monitored user is
\* recorded if it is not, and its Disconnected flag becomes offline
monitorReply(call, target, offline, event) ==
    LET whoCf == Casemap(target)
        known == whoCf \in DOMAIN users
        u == IF known THEN users[whoCf] ELSE NewId
        rs == IF known THEN recs ELSE Put(recs, u, NewUser(target))
    IN  IF whoCf \in monitors
        THEN /\ known \/ FreeIds # {}
             /\ users' = Put(users, whoCf, u)
             /\ recs' = [rs EXCEPT ![u].Disconnected = offline]
             /\ IF rs[u].Disconnected # offline
                THEN Returns(call, [type |-> event, User |-> rs[u].Name], Nil, <<>>)
                ELSE Returns(call, NoEvent, Nil, <<>>)
        ELSE /\ UNCHANGED <<users, recs>>
             /\ Returns(call, NoEvent, Nil, <<>>)

\* HandleMessage for "730 <client> :<target>"
MonOnline(target) ==
    /\ Alive
    /\ monitorReply([call |-> "HandleMessage", cmd |-> "730", target |-> target],
                    target, FALSE, "UserOnlineEvent")
    /\ UNCHANGED <<sessVars, enabledCaps, featVars, channels, monitors, joinLog,
                   histVars, typVars, now, arg>>

\* HandleMessage for "731 <client> :<target>"
MonOffline(target) ==
    /\ Alive
    /\ monitorReply([call |-> "HandleMessage", cmd |-> "731", target |-> target],
                    target, TRUE, "UserOfflineEvent")
    /\ UNCHANGED <<sessVars, enabledCaps, featVars, channels, monitors, joinLog,
                   histVars, typVars, now, arg>>

\* "#", and "#[" and "#{", which RFC 1459 holds for the same channel
ChanA == <<35>>
ChanLB == <<35, 91>>
ChanLC == <<35, 123>>

\* a list ParseNameReply returns, of one name
NameReplyLB == <<[Name |-> NameLB, PowerLevel |-> <<>>]>>

\* the lists ParseNameReply returns
NameReplies == {<<[Name |-> name, PowerLevel |-> <<>>]>> : name \in {NickM, NameLB}}

InitRoster ==
    /\ regEvents = NotCounted
    /\ unanswered = NotTracked
    /\ NewSession(NickM, NickM, <<>>, "nil", TRUE)
    /\ arg = Nil

\* The server welcomes once, and it declares the ascii casemapping at any
\* moment.  Joins and name replies spell the other nick "[", the other
\* messages spell it "{".
NextRoster ==
    \/ ~registered /\ Welcome(<<NickM>>)
    \/ \E name \in {NickM, NameLB}, channel \in {ChanLB, ChanLC} : Join(name, channel)
    \/ \E name \in {NickM, NameLC}, channel \in {ChanLB, ChanLC} : Part(name, channel)
    \/ \E name \in {NickM, NameLC} : Kick(ChanLC, name)
    \/ \E name \in {NickM, NameLC} : Quit(name)
    \/ \E names \in NameReplies : Namreply(ChanLC, names)
    \/ MonitorAdd(NameLB)
    \/ MonitorRemove(NameLC)
    \/ Isupport("CASEMAPPING", "ascii")

SpecRoster == InitRoster /\ [][NextRoster]_vars

InitJoin ==
    /\ regEvents = NotCounted
    /\ unanswered = NotTracked
    /\ NewSession(NickM, NickM, <<>>, "nil", TRUE)
    /\ arg = Nil

NextJoin ==
    \/ \E name \in {NickM, NameLB}, channel \in {ChanLB, ChanLC} : Join(name, channel)
    \/ \E channel \in {ChanLB, ChanLC} : Part(NickM, channel)
    \/ \E channel \in {ChanLB, ChanLC} : Kick(channel, NickM)
    \/ \E channel \in {ChanLB, ChanLC} : Namreply(channel, NameReplyLB)
    \/ \E channel \in {ChanLB, ChanLC} : EndOfNames(channel)
    \/ \E value \in {"ascii", "rfc1459"} : Isupport("CASEMAPPING", value)

SpecJoin == InitJoin /\ [][NextJoin]_vars

InitMonitor ==
    /\ regEvents = NotCounted
    /\ unanswered = NotTracked
    /\ NewSession(NickM, NickM, <<>>, "nil", TRUE)
    /\ arg = Nil

NextMonitor ==
    \/ ~registered /\ Welcome(<<NickM>>)
    \/ \E name \in {NickM, NameLB} : Join(name, ChanA)
    \/ \E name \in {NickM, NameLB} : Nick(name, NameLC)
    \/ Quit(NameLC)
    \/ MonitorAdd(NameLB)
    \/ MonitorRemove(NameLC)
    \/ MonOnline(NameLB)
    \/ MonOffline(NameLC)
    \/ Isupport("MONITOR", 100)

SpecMonitor == InitMonitor /\ [][NextMonitor]_vars

\* C1: a channel of s.channels, created by a self JOIN, is incomplete until
\* the first end-of-names for it, which marks it complete and returns a
\* SelfJoinEvent; every further end-of-names for it leaves it complete and
\* returns no event, so that one SelfJoinEvent is returned per self JOIN.
C1_CompleteOnce ==
    /\ \A c \in DOMAIN channels :
          /\ c \in DOMAIN joinLog
          /\ joinLog[c].ends = 0 => ~channels[c].complete /\ joinLog[c].events = 0
          /\ joinLog[c].ends >= 1 => channels[c].complete /\ joinLog[c].events = 1
    /\ ( /\ op.call = "HandleMessage" /\ op.cmd = "366"
         /\ Casemap(op.channel) \in DOMAIN channels ) =>
          IF joinLog[Casemap(op.channel)].ends = 1
          THEN ev.type = "SelfJoinEvent" /\ err = Nil
          ELSE ev = NoEvent /\ err = Nil

\* a second end-of-names for a joined channel returned no event
C1_Witness ==
    /\ op.call = "HandleMessage" /\ op.cmd = "366"
    /\ Casemap(op.channel) \in DOMAIN channels
    /\ joinLog[Casemap(op.channel)].ends = 2
    /\ channels[Casemap(op.channel)].complete
    /\ ev = NoEvent

\* the last operation was a PART, a KICK or a QUIT
AfterLeave == op.call = "HandleMessage" /\ op.cmd \in {"PART", "KICK", "QUIT"}

\* the record u is in the monitor set by its casemapped nick
Monitored(u) == Casemap(recs[u].Name) \in monitors

\* PART, KICK and QUIT leave in the roster the users whose casemapped nick is
\* in the monitor set
MonitoredStay ==
    [][(op'.call = "HandleMessage" /\ op'.cmd \in {"PART", "KICK", "QUIT"}) =>
          \A k \in DOMAIN users :
              Monitored(users[k]) => k \in DOMAIN users' /\ users'[k] = users[k]]_vars

\* C2 as claimed: after a PART, KICK or QUIT every user of the roster is in
\* the monitor set or a member of a channel, and these operations remove no
\* monitored user.
C2_NoIdleUser ==
    /\ [](AfterLeave =>
            \A k \in DOMAIN users :
                Monitored(users[k]) \/ ChannelsOf(users[k], channels) # {})
    /\ MonitoredStay

\* C2 amended: after a PART, KICK or QUIT every user whose channel membership
\* the message removed, that is not in the monitor set and is a member of no
\* remaining channel, has no record in the roster under its casemapped nick,
\* and these operations remove no monitored user.
C2_PartedUserCleaned ==
    /\ [](AfterLeave =>
            \A u \in op.parted \cap DOMAIN recs :
                (~Monitored(u) /\ ChannelsOf(u, channels) = {}) =>
                    Casemap(recs[u].Name) \notin DOMAIN users)
    /\ MonitoredStay

\* a self PART or KICK took the last membership of a monitored user, who
\* stays in the roster, and of another user, whose record is gone
C2_Witness ==
    /\ AfterLeave
    /\ \E u \in op.parted \cap DOMAIN recs :
          /\ Monitored(u) /\ ChannelsOf(u, channels) = {}
          /\ \E k \in DOMAIN users : users[k] = u
    /\ \E u \in op.parted : u \notin DOMAIN recs

-----------------------------------------------------------------------------
(* NICK of the session's own user *)

\* the lists ParseNameReply returns in SpecNick
NickReplies == {<<[Name |-> name, PowerLevel |-> <<>>]>> : name \in {NickM, NameLC}}

InitNick ==
    /\ regEvents = NotCounted
    /\ unanswered = NotTracked
    /\ NewSession(NickM, NickM, <<>>, "nil", TRUE)
    /\ arg = Nil

NextNick ==
    \/ ~registered /\ Welcome(<<NickM>>)
    \/ \E name \in {NickM, NameLC} : Join(name, ChanA)
    \/ \E names \in NickReplies : Namreply(ChanA, names)
    \/ \E name \in {NickM, NameLC} : Part(name, ChanA)
    \/ \E name \in {NickM, NameLC}, newNick \in {NickM, NameLB, NameLC} :
          Nick(name, newNick)
    \/ \E value \in {"ascii", "rfc1459"} : Isupport("CASEMAPPING", value)

SpecNick == InitNick /\ [][NextNick]_vars

\* the step processes, in a registered session, a NICK message whose sender
\* is the session's own nick
OwnNickStep ==
    /\ registered
    /\ op'.call = "HandleMessage" /\ op'.cmd = "NICK"
    /\ op'.prefix = nick /\ IsMe(op'.prefix)

\* C12 as stated: whenever a NICK message whose sender is the session's own
\* nick is processed, afterwards Nick() is the new nickname and NickCf() its
\* casemapped form, so that IsMe(new nick) holds.
C12_OwnNickFollows ==
    [][OwnNickStep =>
          /\ nick' = op'.nick
          /\ nickCf' = Casemap(op'.nick)]_vars

\* C12, what the code guarantees: a NICK from the session's own nick renames
\* the session when the roster holds a record under the casemapped sender,
\* and otherwise leaves Nick() and NickCf() as they were and returns nothing.
C12_OwnNickFollowsRecord ==
    [][OwnNickStep =>
          IF Casemap(op'.prefix) \in DOMAIN users
          THEN /\ nick' = op'.nick
               /\ nickCf' = Casemap(op'.nick)
               /\ ev'.type = "SelfNickEvent"
          ELSE /\ UNCHANGED <<nick, nickCf>>
               /\ ev' = NoEvent]_vars

\* a NICK from the session's own nick was dropped: the session still goes by
\* the former nick
C12_Witness ==
    /\ registered
    /\ op.call = "HandleMessage" /\ op.cmd = "NICK"
    /\ op.prefix = nick /\ IsMe(op.prefix) /\ op.nick # nick
    /\ ev = NoEvent

-----------------------------------------------------------------------------
(* The Disconnected flag *)

\* C13 as stated: every user record of the roster whose Disconnected flag is
\* true has its casemapped nick in the monitor set.
C13_DisconnectedIsMonitored ==
    \A k \in DOMAIN users :
        recs[users[k]].Disconnected => Casemap(recs[users[k]].Name) \in monitors

\* C13, what the code guarantees: the flag of a record becomes true only while
\* a QUIT of that user is processed, or a 731 whose casemapped target is in
\* the monitor set; MonitorRemove leaves every record and flag as it is.
C13_DisconnectedSetByQuitOrOffline ==
    [][/\ \A u \in DOMAIN recs' :
             (recs'[u].Disconnected /\ (u \in DOMAIN recs => ~recs[u].Disconnected)) =>
                 /\ op'.call = "HandleMessage"
                 /\ \/ op'.cmd = "QUIT" /\ users[Casemap(op'.prefix)] = u
                    \/ op'.cmd = "731" /\ Casemap(op'.target) \in monitors
       /\ op'.call = "MonitorRemove" => UNCHANGED <<users, recs>>]_vars

\* MonitorRemove was called for a user that is recorded as disconnected: the
\* record stays in the roster, disconnected and no longer monitored
C13_Witness ==
    /\ op.call = "MonitorRemove"
    /\ Casemap(op.target) \in DOMAIN users
    /\ recs[users[Casemap(op.target)]].Disconnected
    /\ Casemap(op.target) \notin monitors

-----------------------------------------------------------------------------
(* Inbound messages that carry a batch tag *)

\* longest accumulator of a batch
MaxBatch == 1

MissingPrefix == "errMissingPrefix"

\* what handleMessageRegistered returns
Result(event, error) == [ev |-> event, err |-> error]

\* timestamps of a CHATHISTORY TARGETS line: "1", which parseTimestamp accepts,
\* and "x", which it rejects
TimeOk == <<49>>
TimeBad == <<120>>
parseTimestampOk(timestamp) == timestamp = TimeOk

\* newMessageEvent
newMessageEvent(msg) ==
    IF ~msg.hasPrefix THEN Result(NoEvent, MissingPrefix)
    ELSE IF Len(msg.params) < 2 THEN Result(NoEvent, NotEnoughParams)
    ELSE LET targetCf == Casemap(msg.params[1])
         IN  Result([type |-> "MessageEvent", User |-> msg.prefix,
                     Target |-> IF targetCf \in DOMAIN channels
                                THEN channels[targetCf].Name ELSE msg.params[1],
                     Content |-> msg.params[2]], Nil)

\* handleMessageRegistered(msg, playback) for PRIVMSG, INVITE, TAGMSG and the
\* CHATHISTORY lines of a targets batch, none of which changes a field of the
\* session that the model holds
handleMessageRegistered(msg, playback) ==
    IF msg.cmd = "PRIVMSG"
    THEN IF ~msg.hasPrefix THEN Result(NoEvent, MissingPrefix)
         ELSE IF Len(msg.params) < 1 THEN Result(NoEvent, NotEnoughParams)
         ELSE newMessageEvent(msg)
    ELSE IF msg.cmd = "INVITE"
    THEN IF ~msg.hasPrefix THEN Result(NoEvent, MissingPrefix)
         ELSE IF Len(msg.params) < 2 THEN Result(NoEvent, NotEnoughParams)
         ELSE Result([type |-> "InviteEvent", Inviter |-> msg.prefix,
                      Invitee |-> msg.params[1], Channel |-> msg.params[2]], Nil)
    ELSE IF msg.cmd = "TAGMSG"
    THEN IF playback THEN Result(NoEvent, Nil)
         ELSE IF ~msg.hasPrefix THEN Result(NoEvent, MissingPrefix)
         ELSE IF Len(msg.params) < 1 THEN Result(NoEvent, NotEnoughParams)
         ELSE Result(NoEvent, Nil)
    ELSE Result(NoEvent, Nil)

\* the kind of open batch the tag id names, in the order handleRegistered
\* looks for it
BatchOf(id) ==
    IF id = targetsBatchID THEN "targets"
    ELSE IF id = searchBatchID THEN "search"
    ELSE IF id \in DOMAIN chBatches THEN "chathistory"
    ELSE "none"

\* the search branch of handleRegistered hands back only a MessageEvent
searchKeepsAny(event) == event # NoEvent
searchKeeps(event) == event.type = "MessageEvent"

\* the live PRIVMSG handler calls s.typings.Done(targetCf, nickCf) before it
\* builds the event
liveTypings(msg) ==
    IF msg.cmd = "PRIVMSG" /\ msg.hasPrefix /\ Len(msg.params) >= 1
    THEN typingsDone(Casemap(msg.params[1]), Casemap(msg.prefix))
    ELSE typings

\* HandleMessage for a message with the tag batch=<id>
Tagged(id, msg) ==
    LET call == [call |-> "HandleMessage", cmd |-> msg.cmd, tag |-> id,
                 batch |-> BatchOf(id), msg |-> msg]
        played == handleMessageRegistered(msg, TRUE)
        live == handleMessageRegistered(msg, FALSE)
        \* the message is handed to the live handler, after the batch branches
        fallsThrough ==
            CASE BatchOf(id) = "targets" ->
                     Len(msg.params) >= 3 /\ parseTimestampOk(msg.params[3])
              [] BatchOf(id) = "search" -> played.err = Nil /\ ~searchKeeps(played.ev)
              [] BatchOf(id) = "chathistory" -> played.err = Nil /\ played.ev = NoEvent
              [] OTHER -> TRUE
    IN  /\ Alive
        /\ typings' = IF fallsThrough THEN liveTypings(msg) ELSE typings
        /\ IF BatchOf(id) = "targets"
           THEN IF Len(msg.params) < 3
                THEN /\ Returns(call, NoEvent, NotEnoughParams, <<>>)
                     /\ UNCHANGED <<chBatches, accVars>>
                ELSE IF ~parseTimestampOk(msg.params[3])
                THEN /\ Returns(call, NoEvent, Nil, <<>>)
                     /\ UNCHANGED <<chBatches, accVars>>
                ELSE /\ targetsBatch' = targetsBatch \cup {msg.params[2]}
                     /\ Returns(call, live.ev, live.err, <<>>)
                     /\ UNCHANGED <<chBatches, searchBatch>>
           ELSE IF BatchOf(id) = "search"
           THEN IF played.err # Nil
                THEN /\ Returns(call, NoEvent, played.err, <<>>)
                     /\ UNCHANGED <<chBatches, accVars>>
                ELSE IF searchKeeps(played.ev)
                THEN /\ Len(searchBatch) < MaxBatch
                     /\ searchBatch' = Append(searchBatch, played.ev)
                     /\ Returns(call, NoEvent, Nil, <<>>)
                     /\ UNCHANGED <<chBatches, targetsBatch>>
                ELSE /\ Returns(call, live.ev, live.err, <<>>)
                     /\ UNCHANGED <<chBatches, accVars>>
           ELSE IF BatchOf(id) = "chathistory"
           THEN IF played.err # Nil
                THEN /\ Returns(call, NoEvent, played.err, <<>>)
                     /\ UNCHANGED <<chBatches, accVars>>
                ELSE IF played.ev # NoEvent
                THEN /\ Len(chBatches[id].Messages) < MaxBatch
                     /\ chBatches' = [chBatches EXCEPT ![id].Messages =
                                          Append(@, played.ev)]
                     /\ Returns(call, NoEvent, Nil, <<>>)
                     /\ UNCHANGED accVars
                ELSE /\ Returns(call, live.ev, live.err, <<>>)
                     /\ UNCHANGED <<chBatches, accVars>>
           ELSE /\ Returns(call, live.ev, live.err, <<>>)
                /\ UNCHANGED <<chBatches, accVars>>
        /\ UNCHANGED <<sessVars, enabledCaps, featVars, rosterVars, chReqs,
                       targetsBatchID, searchBatchID, histLog, request,
                       typingStamps, typingLog, now, arg>>

\* the inbound messages of SpecBatch: PRIVMSG with and without its content,
\* INVITE, a TAGMSG that lacks its prefix, and the lines of a targets batch
\* with their three parameters (a word, the target, the timestamp)
TaggedMessages ==
    {[cmd |-> "PRIVMSG", hasPrefix |-> TRUE, prefix |-> NameB,
      params |-> <<ChanA, NameB>>],
     [cmd |-> "PRIVMSG", hasPrefix |-> TRUE, prefix |-> NameB,
      params |-> <<ChanA>>],
     [cmd |-> "INVITE", hasPrefix |-> TRUE, prefix |-> NameB,
      params |-> <<NickM, ChanA>>],
     [cmd |-> "TAGMSG", hasPrefix |-> FALSE, prefix |-> <<>>,
      params |-> <<NameUB, ChanA, TimeOk>>],
     [cmd |-> "CHATHISTORY", hasPrefix |-> FALSE, prefix |-> <<>>,
      params |-> <<NameUB, ChanA, TimeOk>>],
     [cmd |-> "CHATHISTORY", hasPrefix |-> FALSE, prefix |-> <<>>,
      params |-> <<NameUB, ChanA, TimeBad>>]}

InitBatch ==
    /\ regEvents = NotCounted
    /\ unanswered = NotTracked
    /\ NewSession(NickM, NickM, <<>>, "nil", TRUE)
    /\ arg = Nil

NextBatch ==
    \/ Join(NickM, ChanA)
    \/ \E id \in BatchIds : BatchStart(id, "chathistory", ChanA)
    \/ \E id \in BatchIds, name \in BatchNames \ {"chathistory"} :
          BatchStart(id, name, <<>>)
    \/ \E id \in BatchIds : BatchEnd(id)
    \/ \E id \in BatchIds, msg \in TaggedMessages : Tagged(id, msg)

SpecBatch == InitBatch /\ [][NextBatch]_vars

\* the last operation processed a message tagged with the id of an open batch
TaggedOpen ==
    /\ op.call = "HandleMessage" /\ "tag" \in DOMAIN op
    /\ op.batch # "none"

\* C14 as stated: HandleMessage returns no event for a message whose batch
\* tag is the id of an open chathistory, history-targets or search batch.
C14_TaggedReturnsNoEvent == TaggedOpen => ev = NoEvent

\* C14, what the code guarantees: for a message tagged with an open
\* chathistory batch no event is returned; for one tagged with the open search
\* batch a MessageEvent is never returned, while any other event the message
\* produces is returned to the caller as for an untagged message.
C14_OnlyHistoryKeepsAll ==
    TaggedOpen =>
        /\ op.batch = "chathistory" => ev = NoEvent
        /\ op.batch = "search" =>
              /\ ev.type # "MessageEvent"
              /\ err = Nil =>
                    ev = IF handleMessageRegistered(op.msg, TRUE).ev.type = "MessageEvent"
                         THEN NoEvent
                         ELSE handleMessageRegistered(op.msg, FALSE).ev
        /\ op.batch = "targets" =>
              ev = handleMessageRegistered(op.msg, FALSE).ev \/ ev = NoEvent

\* an INVITE tagged with the id of the open search batch was returned to the
\* caller as an InviteEvent
C14_Witness ==
    /\ TaggedOpen /\ op.batch = "search"
    /\ op.cmd = "INVITE" /\ ev.type = "InviteEvent"

-----------------------------------------------------------------------------
(* Errors and the state of the session *)

\* the roster, the channels with their members, the enabled capabilities,
\* the features, the own nick, the in-flight request guards and the open
\* batches without their accumulators
stateButAccumulators ==
    <<users, recs, channels, monitors, enabledCaps, featVars, nick, nickCf,
      chReqs, targetsBatchID, searchBatchID,
      [id \in DOMAIN chBatches |-> chBatches[id].Target]>>

\* the step is a call of HandleMessage that returns an error
ErrorStep == op'.call = "HandleMessage" /\ err' # Nil

\* C15 as stated: a call of HandleMessage that returns an error leaves the
\* roster, the channels, the open batches, the in-flight request guards, the
\* enabled capabilities, the features and the own nick as they were.
C15_ErrorLeavesState ==
    [][ErrorStep =>
          UNCHANGED <<stateButAccumulators, chBatches, targetsBatch, searchBatch>>]_vars

\* C15, what the code guarantees: an error leaves all of that state as it was
\* except the target listing of the open history-targets batch, which has
\* the target of the failed message when that message carried the tag of the
\* batch and a timestamp.
C15_ErrorLeavesStateButTargets ==
    [][ErrorStep =>
          /\ UNCHANGED <<stateButAccumulators, chBatches, searchBatch>>
          /\ \/ UNCHANGED targetsBatch
             \/ /\ "tag" \in DOMAIN op' /\ op'.batch = "targets"
                /\ targetsBatch' = targetsBatch \cup {op'.msg.params[2]}]_vars

\* a message tagged with the open history-targets batch failed with an error
\* after its target had been recorded
C15_Witness ==
    /\ op.call = "HandleMessage" /\ err # Nil
    /\ "tag" \in DOMAIN op /\ op.batch = "targets"
    /\ Len(op.msg.params) >= 3 /\ op.msg.params[2] \in targetsBatch

-----------------------------------------------------------------------------
(* Messages that lack parameters or their prefix *)

\* the commands whose handler returns errMissingPrefix for a nil msg.Prefix
NeedPrefix == {"JOIN", "PART", "QUIT", "NICK", "TOPIC"}

\* the number of parameters the handler of cmd passes to msg.ParseParams;
\* 353, 366, 332, 333 and 331 are the names and topic numerics
parseParamsCount(cmd) ==
    CASE cmd \in {"JOIN", "PART", "NICK", "BATCH"} -> 1
      [] cmd \in {"KICK", "TOPIC", "MODE", "366", "331"} -> 2
      [] cmd \in {"CAP", "332"} -> 3
      [] cmd \in {"353", "333"} -> 4
      [] OTHER -> 0

\* the number of parameters the handler of cmd needs: what it parses, or the
\* highest index it reads from msg.Params
neededParams(cmd) ==
    IF cmd \in {"730", "731", "READ"} THEN 2
    ELSE IF cmd \in SaslFailNumerics THEN 1
    ELSE parseParamsCount(cmd)

\* the message lacks a parameter or the prefix its handler needs
IsMalformed(cmd, hasPrefix, n) ==
    (cmd \in NeedPrefix /\ ~hasPrefix) \/ n < neededParams(cmd)

\* the handler of cmd tests the number of parameters before it reads them;
\* those of the MONITOR numerics read msg.Params[1] untested
paramsCheckedAlways(cmd) == TRUE
paramsChecked(cmd) == cmd \notin {"730", "731"}

\* HandleMessage for a message of command cmd with n parameters that lacks a
\* parameter or the prefix its handler needs
Malformed(cmd, hasPrefix, n) ==
    LET call == [call |-> "HandleMessage", cmd |-> cmd, hasPrefix |-> hasPrefix,
                 n |-> n, malformed |-> TRUE]
    IN  /\ Alive
        /\ IsMalformed(cmd, hasPrefix, n)
        /\ IF cmd \in NeedPrefix /\ ~hasPrefix
           THEN Returns(call, NoEvent, MissingPrefix, <<>>)
           ELSE IF n < parseParamsCount(cmd)
           THEN Returns(call, NoEvent, NotEnoughParams, <<>>)
           ELSE IF ~paramsChecked(cmd)
           THEN Panics(call, <<>>)
           ELSE IF cmd \in SaslFailNumerics
           THEN Panics(call, IF auth # Nil THEN endRegistrationOut(registered, netID)
                                           ELSE <<>>)
           ELSE Returns(call, NoEvent, Nil, <<>>)
        /\ UNCHANGED <<sessVars, enabledCaps, featVars, rosterVars, histVars,
                       typVars, now, arg>>

\* the commands of the inbound messages of SpecMalformed
MalformedCommands ==
    {"JOIN", "PART", "KICK", "QUIT", "NICK", "TOPIC", "MODE", "CAP", "BATCH",
     "353", "366", "332", "333", "331", "730", "731", "READ"} \cup SaslFailNumerics

InitMalformed ==
    /\ regEvents = NotCounted
    /\ unanswered = NotTracked
    /\ \E authKind \in {"nil", "late"} : NewSession(NickM, NickM, <<>>, authKind, TRUE)
    /\ arg = Nil

NextMalformed ==
    \/ \E params \in RegParams : Welcome(params)
    \/ \E cmd \in MalformedCommands, hasPrefix \in BOOLEAN, n \in 0..3 :
          Malformed(cmd, hasPrefix, n)
    \/ MonitorAdd(NameLB)

SpecMalformed == InitMalformed /\ [][NextMalformed]_vars

\* the last operation processed a message that lacks a parameter or the prefix
\* its handler needs
AfterMalformed == op.call = "HandleMessage" /\ "malformed" \in DOMAIN op

\* C16 as stated: a message with fewer parameters than its handler needs, or
\* without the prefix it needs, makes HandleMessage return an error, and is
\* no fault of the engine.
C16_MalformedIsError == AfterMalformed => err # Nil /\ fault = "none"

\* C16, what the code guarantees: such a message makes HandleMessage return
\* an error for JOIN, PART, KICK, QUIT, NICK, TOPIC, MODE, CAP, BATCH and the
\* names and topic numerics; a MONITOR or SASL failure numeric makes it
\* panic, and READ is dropped without an error.
C16_MalformedIsErrorWhereParsed ==
    AfterMalformed =>
        /\ op.cmd \notin {"730", "731", "READ"} \cup SaslFailNumerics =>
              err # Nil /\ ev = NoEvent /\ sent = <<>> /\ fault = "none"
        /\ op.cmd \in {"730", "731"} \cup SaslFailNumerics => fault = "panic"
        /\ op.cmd = "READ" => err = Nil /\ ev = NoEvent /\ fault = "none"

\* a 730 with a single parameter made HandleMessage panic
C16_Witness == AfterMalformed /\ op.cmd = "730" /\ op.n = 1 /\ fault = "panic"

-----------------------------------------------------------------------------
(* The monitor set and the MONITOR commands *)

\* C17: MonitorAdd(t) puts the casemapped t in the monitor set and
\* MonitorRemove(t) takes it out, whether or not MONITOR is supported; the
\* call pushes MONITOR + t, or MONITOR - t, exactly when MONITOR is supported
\* and the call changed the set, and nothing otherwise; so of two MonitorAdd
\* calls in a row for the same target at most one pushes a MONITOR +.
C17_MonitorSetAndWire ==
    [][/\ op'.call = "MonitorAdd" =>
             /\ monitors' = monitors \cup {Casemap(op'.target)}
             /\ sent' = IF monitor /\ monitors' # monitors
                        THEN <<[cmd |-> "MONITOR", sub |-> "+", target |-> op'.target]>>
                        ELSE <<>>
             /\ (op.call = "MonitorAdd" /\ op.target = op'.target) =>
                   Len(sent) + Len(sent') <= 1
       /\ op'.call = "MonitorRemove" =>
             /\ monitors' = monitors \ {Casemap(op'.target)}
             /\ sent' = IF monitor /\ monitors' # monitors
                        THEN <<[cmd |-> "MONITOR", sub |-> "-", target |-> op'.target]>>
                        ELSE <<>>]_vars

\* MonitorAdd was called, with MONITOR supported, for a target that was in
\* the monitor set already, and pushed nothing
C17_Witness ==
    /\ op.call = "MonitorAdd" /\ monitor /\ sent = <<>>
    /\ Casemap(op.target) \in monitors

-----------------------------------------------------------------------------
(* Builder calls and the capabilities that gate them *)

\* the capability test of ReadGet and ReadSet
readEnabledAlways == TRUE
readEnabled == HasCapability("soju.im/read")

\* Session.ReadGet
ReadGet(target) ==
    /\ Alive
    /\ Done([call |-> "ReadGet", target |-> target],
            IF readEnabled THEN <<[cmd |-> "READ", target |-> target]>> ELSE <<>>)
    /\ UNCHANGED <<sessVars, enabledCaps, featVars, rosterVars, histVars, typVars,
                   now, arg>>

\* Session.ReadSet; the timestamp is the clock's
ReadSet(target) ==
    /\ Alive
    /\ Done([call |-> "ReadSet", target |-> target],
            IF readEnabled
            THEN <<[cmd |-> "READ", target |-> target, timestamp |-> now]>>
            ELSE <<>>)
    /\ UNCHANGED <<sessVars, enabledCaps, featVars, rosterVars, histVars, typVars,
                   now, arg>>

\* Session.Search
Search(target, text) ==
    /\ Alive
    /\ Done([call |-> "Search", target |-> target, text |-> text],
            IF HasCapability("soju.im/search")
            THEN <<[cmd |-> "SEARCH", text |-> text, in |-> target]>>
            ELSE <<>>)
    /\ UNCHANGED <<sessVars, enabledCaps, featVars, rosterVars, histVars, typVars,
                   now, arg>>

\* the capability that gates each builder
Gate(call) ==
    CASE call \in {"Typing", "TypingStop"} -> "message-tags"
      [] call \in {"ReadGet", "ReadSet"} -> "soju.im/read"
      [] call = "Search" -> "soju.im/search"
      [] call = "doRequest" -> "draft/chathistory"

GatedBuilders == {"Typing", "TypingStop", "ReadGet", "ReadSet", "Search", "doRequest"}

\* the lists ParseCaps returns for an ACK that enables or disables one of the
\* gating capabilities
GateAcks ==
    {<<[Name |-> name, Enable |-> enable]>> :
        name \in {"message-tags", "soju.im/read", "soju.im/search", "draft/chathistory"},
        enable \in BOOLEAN}

InitGate ==
    /\ regEvents = NotCounted
    /\ unanswered = NotTracked
    /\ NewSession(NickM, NickM, <<>>, "nil", TRUE)
    /\ arg = Nil

NextGate ==
    \/ \E caps \in GateAcks : CapAck(caps)
    \/ Typing(NameLB)
    \/ TypingStop(NameLB)
    \/ ReadGet(NameLB)
    \/ ReadSet(NameLB)
    \/ Search(NameLB, NameB)
    \/ After(NameLB)
    \/ Targets

SpecGate == InitGate /\ [][NextGate]_vars

\* C18: a call of Typing, TypingStop, ReadGet, ReadSet, Search or of a history
\* request while its gating capability is not enabled pushes nothing onto
\* s.out and leaves every field of the session as it was: no typing stamp and
\* no request in flight is recorded.
C18_GatedBuilderIsNoOp ==
    [][(op'.call \in GatedBuilders /\ ~HasCapability(Gate(op'.call))) =>
          /\ sent' = <<>>
          /\ UNCHANGED <<sessVars, enabledCaps, featVars, rosterVars, histVars,
                         typVars>>]_vars

\* Typing was called after message-tags had been disabled again, for a target
\* that has a typing stamp
C18_Witness ==
    /\ op.call = "Typing" /\ ~HasCapability("message-tags") /\ sent = <<>>
    /\ Casemap(op.target) \in DOMAIN typingStamps
    /\ typingStamps[Casemap(op.target)].Type = "done"

-----------------------------------------------------------------------------
(* ISUPPORT tokens: CASEMAPPING, LINELEN, PREFIX *)

MaxPrefix == 2

ModeLetters   == {111, 118}     \* o v
PrefixSymbols == {64, 43}       \* @ +

RECURSIVE StringsOver(_, _)
StringsOver(bytes, n) ==
    IF n = 0 THEN {<<>>}
    ELSE {Append(s, b) : s \in StringsOver(bytes, n - 1), b \in bytes}

\* the text "(" modes ")" symbols
PrefixValue(modes, symbols) == <<40>> \o modes \o <<41>> \o symbols

WellFormedPrefixes ==
    UNION {{PrefixValue(modes, symbols) : modes \in StringsOver(ModeLetters, k),
                                          symbols \in StringsOver(PrefixSymbols, k)}
           : k \in 0..MaxPrefix}

\* an empty value, one of odd length, one with a byte above MaxASCII
OtherPrefixes == {<<>>, <<40, 111, 41>>, <<40, 111, 41, 195>>}

PrefixOV == PrefixValue(<<111, 118>>, <<64, 43>>)

ExampleTokens == {<<"CASEMAPPING", "ascii">>, <<"PREFIX", PrefixOV>>, <<"LINELEN", 300>>}

FeatureLists ==
    {<<t>> : t \in {<<"CASEMAPPING", "ascii">>, <<"CASEMAPPING", "rfc1459">>,
                    <<"LINELEN", 300>>, <<"LINELEN", 0>>, <<"MONITOR", 100>>}}
    \cup {<< <<"PREFIX", value>> >> : value \in WellFormedPrefixes \cup OtherPrefixes}
    \cup {l \in {<<a, b, c>> : a \in ExampleTokens, b \in ExampleTokens,
                                 c \in ExampleTokens} :
              l[1][1] # l[2][1] /\ l[1][1] # l[3][1] /\ l[2][1] # l[3][1]}

InitFeatures ==
    /\ regEvents = NotCounted
    /\ unanswered = NotTracked
    /\ NewSession(NickM, NickM, <<>>, "nil", TRUE)
    /\ arg = Nil

NextFeatures == \E features \in FeatureLists : IsupportTokens(features)

SpecFeatures == InitFeatures /\ [][NextFeatures]_vars

\* the last token of the list with the key, if any
HasToken(features, key) == \E i \in 1..Len(features) : features[i][1] = key
LastToken(features, key) ==
    features[CHOOSE i \in 1..Len(features) :
                 /\ features[i][1] = key
                 /\ \A j \in (i + 1)..Len(features) : features[j][1] # key][2]

\* the step is a 005 whose tokens include KEY=value as the last one for KEY
Token(key, value) ==
    /\ op'.call = "HandleMessage" /\ op'.cmd = "005" /\ "features" \in DOMAIN op'
    /\ HasToken(op'.features, key)
    /\ LastToken(op'.features, key) = value

\* C19: CASEMAPPING=ascii selects the ASCII casemapping, LINELEN=300 sets the
\* line length to 300, and a well-formed PREFIX=(m1..mk)s1..sk sets the modes
\* to m1..mk and the symbols to s1..sk, so that mode mi has symbol si at the
\* same index; a feature whose key is not among the tokens keeps its value.
\* With the three tokens of the example in one message, in any order, the
\* session has the ASCII casemapping, modes "ov", symbols "@+" and length 300.
C19_IsupportExample ==
    [][/\ Token("CASEMAPPING", "ascii") =>
            /\ casemap' = "ascii"
            /\ \A name \in {NameUB, NameLB, NameLC} : Casemap(name)' = CasemapASCII(name)
       /\ Token("LINELEN", 300) => linelen' = 300
       /\ \A k \in 0..MaxPrefix :
            \A modes \in StringsOver(ModeLetters, k), symbols \in StringsOver(PrefixSymbols, k) :
              Token("PREFIX", PrefixValue(modes, symbols)) =>
                  /\ prefixModes' = modes /\ prefixSymbols' = symbols
                  /\ Len(prefixModes') = Len(prefixSymbols')
                  /\ \A i \in 1..k : prefixModes'[i] = modes[i] /\ prefixSymbols'[i] = symbols[i]
       /\ (op'.call = "HandleMessage" /\ op'.cmd = "005" /\ "features" \in DOMAIN op') =>
            /\ ~HasToken(op'.features, "CASEMAPPING") => casemap' = casemap
            /\ ~HasToken(op'.features, "LINELEN") => linelen' = linelen
            /\ ~HasToken(op'.features, "PREFIX") =>
                   prefixModes' = prefixModes /\ prefixSymbols' = prefixSymbols
       /\ (/\ op'.call = "HandleMessage" /\ op'.cmd = "005" /\ "features" \in DOMAIN op'
           /\ Len(op'.features) = 3
           /\ \A t \in ExampleTokens : \E i \in 1..3 : op'.features[i] = t) =>
            /\ casemap' = "ascii" /\ linelen' = 300
            /\ prefixModes' = <<111, 118>> /\ prefixSymbols' = <<64, 43>>
      ]_vars

C19_Witness ==
    /\ op.call = "HandleMessage" /\ op.cmd = "005" /\ "features" \in DOMAIN op
    /\ Len(op.features) = 3
    /\ op.features[1] = <<"CASEMAPPING", "ascii">>
    /\ op.features[2] = <<"PREFIX", PrefixOV>>
    /\ op.features[3] = <<"LINELEN", 300>>
    /\ fault = "none" /\ ev = [type |-> "RegisteredEvent"]
    /\ casemap = "ascii" /\ linelen = 300
    /\ prefixModes = <<111, 118>> /\ prefixSymbols = <<64, 43>>

-----------------------------------------------------------------------------
(* MODE: membership modes of channel members *)

\* the longest power-level string a MODE is applied to
MaxPower == 3

\* strings.IndexByte, counted from 0, -1 when the byte is absent
IndexByte(s, b) ==
    IF \E i \in 1..Len(s) : s[i] = b
    THEN (CHOOSE i \in 1..Len(s) : s[i] = b /\ \A j \in 1..(i - 1) : s[j] # b) - 1
    ELSE -1

\* ParseChannelMode for a session that has received no CHANMODES token: a
\* sign sets the direction of the letters after it, a membership-mode letter
\* takes the next parameter, any other letter is unknown.
RECURSIVE parseChannelModeFrom(_, _, _, _, _)
parseChannelModeFrom(mode, params, enable, membershipModes, changes) ==
    IF mode = <<>> THEN [ok |-> TRUE, changes |-> changes]
    ELSE IF Head(mode) \in {43, 45}
    THEN parseChannelModeFrom(Tail(mode), params, Head(mode) = 43, membershipModes,
                              changes)
    ELSE IF IndexByte(membershipModes, Head(mode)) < 0 \/ params = <<>>
    THEN [ok |-> FALSE, changes |-> <<>>]
    ELSE parseChannelModeFrom(Tail(mode), Tail(params), enable, membershipModes,
                              Append(changes, <<enable, Head(mode), Head(params)>>))

ParseChannelMode(mode, params, membershipModes) ==
    parseChannelModeFrom(mode, params, TRUE, membershipModes, <<>>)

\* sort.Slice by the position of each byte in s.prefixSymbols, for the short
\* slices a power level is: an insertion sort
RECURSIVE insertByRank(_, _, _)
insertByRank(sorted, b, symbols) ==
    IF sorted = <<>> THEN <<b>>
    ELSE IF IndexByte(symbols, b) < IndexByte(symbols, sorted[Len(sorted)])
    THEN Append(insertByRank(SubSeq(sorted, 1, Len(sorted) - 1), b, symbols),
                sorted[Len(sorted)])
    ELSE Append(sorted, b)

RECURSIVE sortByRank(_, _)
sortByRank(s, symbols) ==
    IF s = <<>> THEN <<>>
    ELSE insertByRank(sortByRank(SubSeq(s, 1, Len(s) - 1), symbols), s[Len(s)], symbols)

\* the membership after an enabling change, without the sort
enabledUnsorted(membership, symbol, symbols) == Append(membership, symbol)
\* newMembership of an enabling change
enabled(membership, symbol, symbols) == sortByRank(Append(membership, symbol), symbols)

\* newMembership of a disabling change: nil when the symbol is not held
disabled(membership, symbol) ==
    LET j == IndexByte(membership, symbol)
    IN  IF j >= 0 THEN SubSeq(membership, 1, j) \o SliceFrom(membership, j + 1)
        ELSE <<>>

\* the loop of MODE over the changes <<Enable, Mode, Param>>
RECURSIVE modeLoop(_, _)
modeLoop(changes, members) ==
    IF changes = <<>> THEN members
    ELSE LET change == Head(changes)
             i == IndexByte(prefixModes, change[2])
             whoCf == Casemap(change[3])
         IN  IF i < 0 \/ whoCf \notin DOMAIN users
                \/ users[whoCf] \notin DOMAIN members
             THEN modeLoop(Tail(changes), members)
             ELSE LET u == users[whoCf]
                      symbol == prefixSymbols[i + 1]
                  IN  modeLoop(Tail(changes),
                               Put(members, u,
                                   IF change[1]
                                   THEN enabled(members[u], symbol, prefixSymbols)
                                   ELSE disabled(members[u], symbol)))

\* HandleMessage for ":<nick> MODE <channel> <mode> <params>", not in a batch
Mode(channel, mode, params) ==
    LET channelCf == Casemap(channel)
        call == [call |-> "HandleMessage", cmd |-> "MODE", channel |-> channel,
                 mode |-> mode, params |-> params]
        parsed == ParseChannelMode(mode, params, prefixModes)
    IN  /\ Alive
        /\ IF channelCf \notin DOMAIN channels
           THEN /\ Returns(call, NoEvent, Nil, <<>>)
                /\ UNCHANGED channels
           ELSE IF ~parsed.ok
           THEN /\ Returns(call, NoEvent, "ParseChannelMode", <<>>)
                /\ UNCHANGED channels
           ELSE /\ channels' = [channels EXCEPT ![channelCf].Members =
                                    modeLoop(parsed.changes, @)]
                /\ Returns(call, [type |-> "ModeChangeEvent",
                                  Channel |-> channels[channelCf].Name,
                                  Mode |-> <<mode>> \o params], Nil, <<>>)
        /\ UNCHANGED <<sessVars, enabledCaps, featVars, users, recs, monitors,
                       joinLog, histVars, typVars, now, arg>>

\* the mode strings "+o", "+v", "-o", "-v", "o", "+ov", "+o-v", "-o+v", "+n"
ModeStrings ==
    {<<43, 111>>, <<43, 118>>, <<45, 111>>, <<45, 118>>, <<111>>,
     <<43, 111, 118>>, <<43, 111, 45, 118>>, <<45, 111, 43, 118>>, <<43, 110>>}

\* the parameters after the mode string: the member "[", and "B", who is unknown
ModeParams ==
    {<<>>} \cup {<<a>> : a \in {NameLB, NameUB}}
           \cup {<<a, b>> : a \in {NameLB, NameUB}, b \in {NameLB, NameUB}}

\* the lists ParseNameReply returns: "[" with a power level
ModeReplies ==
    {<<[Name |-> NameLB, PowerLevel |-> level]>> :
        level \in {<<>>, <<43>>, <<64>>, <<64, 43>>}}

\* PREFIX values: the default, the same with the ranks reversed, and "(o)@"
ModePrefixes == {PrefixOV, <<40, 118, 111, 41, 43, 64>>, <<40, 111, 41, 64>>}

PowerLevelsBelow(n) ==
    \A c \in DOMAIN channels : \A u \in DOMAIN channels[c].Members :
        Len(channels[c].Members[u]) < n

InitMode ==
    /\ regEvents = NotCounted
    /\ unanswered = NotTracked
    /\ NewSession(NickM, NickM, <<>>, "nil", TRUE)
    /\ arg = Nil

\* A names reply carries the symbols of the table in force.
NextMode ==
    \/ Join(NickM, ChanA)
    \/ \E names \in ModeReplies :
          /\ \A i \in 1..Len(names[1].PowerLevel) :
                 IndexByte(prefixSymbols, names[1].PowerLevel[i]) >= 0
          /\ Namreply(ChanA, names)
    \/ \E value \in ModePrefixes : Isupport("PREFIX", value)
    \/ \E mode \in ModeStrings, params \in ModeParams :
          PowerLevelsBelow(MaxPower) /\ Mode(ChanA, mode, params)

SpecMode == InitMode /\ [][NextMode]_vars

\* s is ordered by the position of its bytes in the symbol table
OrderedByRank(s, symbols) ==
    \A i \in 1..(Len(s) - 1) : IndexByte(symbols, s[i]) <= IndexByte(symbols, s[i + 1])

Contains(s, b) == \E i \in 1..Len(s) : s[i] = b

\* the step is a MODE that was applied to a joined channel
ModeApplied ==
    /\ op'.call = "HandleMessage" /\ op'.cmd = "MODE" /\ err' = Nil
    /\ Casemap(op'.channel) \in DOMAIN channels

\* the change enables a membership mode for a member of the channel
Enables(change, members) ==
    /\ change[1]
    /\ IndexByte(prefixModes, change[2]) >= 0
    /\ Casemap(change[3]) \in DOMAIN users
    /\ users[Casemap(change[3])] \in DOMAIN members

\* C20: after a MODE that enables a membership mode for a member of the
\* channel, the member's power level is ordered by the position of its symbols
\* in the symbol table, and it contains the symbol of the mode unless a later
\* change of the same message disables a mode for the member; with the
\* default table, "+o" for a member holding "+" gives "@+".
C20_EnableInsertsByRank ==
    [][ModeApplied =>
        LET changes == ParseChannelMode(op'.mode, op'.params, prefixModes).changes
            members == channels[Casemap(op'.channel)].Members
            after == channels'[Casemap(op'.channel)].Members
        IN  \A n \in 1..Len(changes) :
              Enables(changes[n], members) =>
                LET symbol == prefixSymbols[IndexByte(prefixModes, changes[n][2]) + 1]
                    u == users[Casemap(changes[n][3])]
                IN  /\ OrderedByRank(after[u], prefixSymbols)
                    /\ (\A k \in (n + 1)..Len(changes) :
                            changes[k][1]
                            \/ Casemap(changes[k][3]) # Casemap(changes[n][3]))
                       => Contains(after[u], symbol)
                    /\ (/\ prefixSymbols = <<64, 43>> /\ prefixModes = <<111, 118>>
                        /\ op'.mode = <<43, 111>> /\ members[u] = <<43>>)
                       => after[u] = <<64, 43>>
      ]_vars

C20_Witness ==
    /\ op.call = "HandleMessage" /\ op.cmd = "MODE" /\ op.mode = <<43, 111>>
    /\ op.params = <<NameLB>> /\ ev.type = "ModeChangeEvent"
    /\ prefixSymbols = <<64, 43>> /\ prefixModes = <<111, 118>>
    /\ ChanA \in DOMAIN channels /\ NameLC \in DOMAIN users
    /\ users[NameLC] \in DOMAIN channels[ChanA].Members
    /\ channels[ChanA].Members[users[NameLC]] = <<64, 43>>

\* the change disables a membership mode for a member of the channel
Disables(change, members) ==
    /\ ~change[1]
    /\ IndexByte(prefixModes, change[2]) >= 0
    /\ Casemap(change[3]) \in DOMAIN users
    /\ users[Casemap(change[3])] \in DOMAIN members

\* s without its first b
WithoutFirst(s, b) ==
    LET j == IndexByte(s, b)
    IN  IF j < 0 THEN s ELSE SubSeq(s, 1, j) \o SliceFrom(s, j + 1)

\* the step is a MODE of one change, applied to a joined channel, that
\* disables a membership mode for a member
DisablesOne ==
    /\ ModeApplied
    /\ LET changes == ParseChannelMode(op'.mode, op'.params, prefixModes).changes
       IN  /\ Len(changes) = 1
           /\ Disables(changes[1], channels[Casemap(op'.channel)].Members)

\* C22 as stated: a MODE that disables a membership mode for a member removes
\* the symbol of the mode from the member's power level and keeps the other
\* symbols; a power level without the symbol is unchanged.
C22_DisableRemovesOnlySymbol ==
    [][DisablesOne =>
        LET change == ParseChannelMode(op'.mode, op'.params, prefixModes).changes[1]
            symbol == prefixSymbols[IndexByte(prefixModes, change[2]) + 1]
            u == users[Casemap(change[3])]
            before == channels[Casemap(op'.channel)].Members[u]
            after == channels'[Casemap(op'.channel)].Members[u]
        IN  after = WithoutFirst(before, symbol)
      ]_vars

\* C22: a MODE that disables a membership mode for a member who holds its
\* symbol removes the first occurrence of the symbol and keeps every other
\* symbol in place; for a member who does not hold the symbol it empties the
\* power level; the power levels of the other members are unchanged.
C22_DisableRemovesOrEmpties ==
    [][DisablesOne =>
        LET change == ParseChannelMode(op'.mode, op'.params, prefixModes).changes[1]
            symbol == prefixSymbols[IndexByte(prefixModes, change[2]) + 1]
            u == users[Casemap(change[3])]
            members == channels[Casemap(op'.channel)].Members
            after == channels'[Casemap(op'.channel)].Members
        IN  /\ after[u] = IF Contains(members[u], symbol)
                          THEN WithoutFirst(members[u], symbol)
                          ELSE <<>>
            /\ DOMAIN after = DOMAIN members
            /\ \A other \in DOMAIN members \ {u} : after[other] = members[other]
      ]_vars

\* "-v" has left the member with "@": the member held "@+" before, since a
\* member without "+" would have been left with no symbol
C22_Witness ==
    /\ op.call = "HandleMessage" /\ op.cmd = "MODE" /\ op.mode = <<45, 118>>
    /\ op.params = <<NameLB>> /\ ev.type = "ModeChangeEvent"
    /\ prefixSymbols = <<64, 43>> /\ prefixModes = <<111, 118>>
    /\ ChanA \in DOMAIN channels /\ NameLC \in DOMAIN users
    /\ users[NameLC] \in DOMAIN channels[ChanA].Members
    /\ channels[ChanA].Members[users[NameLC]] = <<64>>

\* the number of times b occurs in s
Count(s, b) == Cardinality({i \in 1..Len(s) : s[i] = b})

\* C37 as stated: in every state each member's power level contains each
\* membership symbol at most once.
C37_SymbolsAtMostOnce ==
    \A c \in DOMAIN channels : \A u \in DOMAIN channels[c].Members :
        \A b \in {64, 43} : Count(channels[c].Members[u], b) <= 1

\* the changes of the list that enable the mode of symbol b for member u
EnablingChanges(changes, members, u, b) ==
    {n \in 1..Len(changes) :
        /\ Enables(changes[n], members)
        /\ users[Casemap(changes[n][3])] = u
        /\ prefixSymbols[IndexByte(prefixModes, changes[n][2]) + 1] = b}

\* C37, what holds: a MODE adds the symbol of each enabling change to the
\* member's power level whether or not the member holds it: a symbol occurs
\* after the MODE at most as often as before plus once for each change that
\* enables its mode for the member, and after a MODE of one enabling change
\* exactly once more than before.
C37_EnableAddsSymbol ==
    [][ModeApplied =>
        LET changes == ParseChannelMode(op'.mode, op'.params, prefixModes).changes
            members == channels[Casemap(op'.channel)].Members
            after == channels'[Casemap(op'.channel)].Members
        IN  \A u \in DOMAIN members : \A b \in {64, 43} :
              /\ Count(after[u], b) <=
                    Count(members[u], b)
                        + Cardinality(EnablingChanges(changes, members, u, b))
              /\ (Len(changes) = 1 /\ EnablingChanges(changes, members, u, b) # {}) =>
                    Count(after[u], b) = Count(members[u], b) + 1
      ]_vars

\* "+o" for a member that held "@" has left the member with "@@"
C37_Witness ==
    /\ op.call = "HandleMessage" /\ op.cmd = "MODE" /\ op.mode = <<43, 111>>
    /\ op.params = <<NameLB>> /\ ev.type = "ModeChangeEvent"
    /\ prefixSymbols = <<64, 43>> /\ prefixModes = <<111, 118>>
    /\ ChanA \in DOMAIN channels /\ NameLC \in DOMAIN users
    /\ users[NameLC] \in DOMAIN channels[ChanA].Members
    /\ channels[ChanA].Members[users[NameLC]] = <<64, 64>>

-----------------------------------------------------------------------------
(* MONITOR numerics that list several targets *)

\* the loop of rplMononline (offline = FALSE) and rplMonoffline (offline =
\* TRUE) over the targets of msg.Params[1]: it returns from the handler at
\* the first monitored target whose flag it changes.  The result holds the
\* users and records after the loop, that target's name or Nil, and whether
\* the heap had room for the records allocated.
RECURSIVE monitorLoop(_, _, _, _)
monitorLoop(targets, us, rs, offline) ==
    IF targets = <<>>
    THEN [users |-> us, recs |-> rs, changed |-> FALSE, name |-> <<>>, ok |-> TRUE]
    ELSE LET whoCf == Casemap(Head(targets))
             known == whoCf \in DOMAIN us
             free == UserIds \ DOMAIN rs
             u == IF known THEN us[whoCf]
                  ELSE CHOOSE id \in free : \A other \in free : id <= other
         IN  IF whoCf \notin monitors
             THEN monitorLoop(Tail(targets), us, rs, offline)
             ELSE IF ~known /\ free = {}
             THEN [users |-> us, recs |-> rs, changed |-> FALSE, name |-> <<>>,
                   ok |-> FALSE]
             ELSE LET withU == IF known THEN rs ELSE Put(rs, u, NewUser(Head(targets)))
                  IN  IF withU[u].Disconnected # offline
                      THEN [users |-> Put(us, whoCf, u),
                            recs |-> [withU EXCEPT ![u].Disconnected = offline],
                            changed |-> TRUE, name |-> withU[u].Name, ok |-> TRUE]
                      ELSE monitorLoop(Tail(targets), Put(us, whoCf, u), withU, offline)

\* HandleMessage for "730 <client> :<targets>" and "731 <client> :<targets>"
MonReply(cmd, targets) ==
    LET after == monitorLoop(targets, users, recs, cmd = "731")
    IN  /\ Alive
        /\ after.ok
        /\ users' = after.users
        /\ recs' = after.recs
        /\ Returns([call |-> "HandleMessage", cmd |-> cmd, targets |-> targets],
                   IF after.changed
                   THEN [type |-> IF cmd = "731" THEN "UserOfflineEvent"
                                  ELSE "UserOnlineEvent",
                         User |-> after.name]
                   ELSE NoEvent, Nil, <<>>)
        /\ UNCHANGED <<sessVars, enabledCaps, featVars, channels, monitors, joinLog,
                       histVars, typVars, now, arg>>

\* the targets of a MONITOR numeric: "[" and "B", either or both
MonTargets ==
    {<<NameLB>>, <<NameUB>>, <<NameLB, NameUB>>, <<NameUB, NameLB>>}

InitMonList ==
    /\ regEvents = NotCounted
    /\ unanswered = NotTracked
    /\ NewSession(NickM, NickM, <<>>, "nil", TRUE)
    /\ arg = Nil

NextMonList ==
    \/ \E target \in {NameLB, NameUB} : MonitorAdd(target)
    \/ \E target \in {NameLB, NameUB} : MonitorRemove(target)
    \/ \E cmd \in {"730", "731"}, targets \in MonTargets : MonReply(cmd, targets)

SpecMonList == InitMonList /\ [][NextMonList]_vars

\* the last operation handled a MONITOR numeric with a list of targets
AfterMonReply ==
    op.call = "HandleMessage" /\ op.cmd \in {"730", "731"} /\ "targets" \in DOMAIN op

\* target n of the list is monitored
MonitoredAt(targets, n) == Casemap(targets[n]) \in monitors

\* the flag of target n of the list differs from the one the numeric sets: a
\* target without a record counts as connected
DiffersAt(targets, n, offline) ==
    IF Casemap(targets[n]) \in DOMAIN users
    THEN recs[users[Casemap(targets[n])]].Disconnected # offline
    ELSE offline

\* C23 as stated: after a 730 (731) every listed target of the monitor set has
\* a record whose Disconnected flag is false (true), and the same numeric
\* handled again right after returns no event.
C23_AllListedFlipped ==
    /\ [](AfterMonReply =>
            \A n \in 1..Len(op.targets) :
                MonitoredAt(op.targets, n) =>
                    /\ Casemap(op.targets[n]) \in DOMAIN users
                    /\ recs[users[Casemap(op.targets[n])]].Disconnected = (op.cmd = "731"))
    /\ [][(/\ AfterMonReply /\ AfterMonReply'
           /\ op'.cmd = op.cmd /\ op'.targets = op.targets) => ev' = NoEvent]_vars

\* C23, what the code guarantees: a 730 (731) handles its targets in order up
\* to the first monitored one whose flag differs; that record gets the flag
\* false (true) and its name is the event returned; the monitored targets
\* before it get a record if they had none; the records of the targets after
\* it are neither created nor changed.  With no such target no event is
\* returned and every listed monitored target has a record with the flag.
C23_FirstChangeOnly ==
    [][(AfterMonReply' /\ fault' = "none") =>
        LET targets == op'.targets
            offline == op'.cmd = "731"
            hits == {n \in 1..Len(targets) :
                        MonitoredAt(targets, n) /\ DiffersAt(targets, n, offline)}
            first == CHOOSE n \in hits : \A k \in hits : n <= k
        IN  IF hits = {}
            THEN /\ ev' = NoEvent
                 /\ \A n \in 1..Len(targets) :
                      MonitoredAt(targets, n) =>
                          /\ Casemap(targets[n]) \in DOMAIN users'
                          /\ recs'[users'[Casemap(targets[n])]].Disconnected = offline
            ELSE /\ ev'.type = IF offline THEN "UserOfflineEvent" ELSE "UserOnlineEvent"
                 /\ Casemap(ev'.User) = Casemap(targets[first])
                 /\ recs'[users'[Casemap(targets[first])]].Disconnected = offline
                 /\ \A n \in 1..Len(targets) :
                      (n > first /\ Casemap(targets[n]) # Casemap(targets[first])) =>
                          IF Casemap(targets[n]) \in DOMAIN users
                          THEN /\ Casemap(targets[n]) \in DOMAIN users'
                               /\ recs'[users'[Casemap(targets[n])]] =
                                      recs[users[Casemap(targets[n])]]
                          ELSE Casemap(targets[n]) \notin DOMAIN users'
      ]_vars

\* a 731 listing two monitored targets returned the event of the first and
\* left the second without a record
C23_Witness ==
    /\ AfterMonReply /\ op.cmd = "731" /\ op.targets = <<NameLB, NameUB>>
    /\ Casemap(NameLB) \in monitors /\ Casemap(NameUB) \in monitors
    /\ ev = [type |-> "UserOfflineEvent", User |-> NameLB]
    /\ Casemap(NameUB) \notin DOMAIN users

-----------------------------------------------------------------------------
(* BATCH end for a reference that no open batch has *)

\* the references of the BATCH end messages: none, "1" and "2"; batches are
\* started with the reference "1" only
EndIds == {<<>>, <<49>>, <<50>>}

InitBatchEnd ==
    /\ regEvents = NotCounted
    /\ unanswered = NotTracked
    /\ NewSession(NickM, NickM, <<>>, "nil", TRUE)
    /\ arg = Nil

NextBatchEnd ==
    \/ After(NameLB)
    \/ Targets
    \/ BatchStart(<<49>>, "chathistory", NameLB)
    \/ \E name \in BatchNames \ {"chathistory"} : BatchStart(<<49>>, name, <<>>)
    \/ \E id \in EndIds : BatchEnd(id)
    \/ \E caps \in HistAcks : CapAck(caps)

SpecBatchEnd == InitBatchEnd /\ [][NextBatchEnd]_vars

\* the reference is that of no open batch; in SpecBatchEnd every batch is
\* started with a reference that is not empty, so that an empty
\* s.targetsBatchID or s.searchBatchID means that no such batch is open
MatchesNoBatch(id) ==
    /\ id \notin DOMAIN chBatches
    /\ targetsBatchID = <<>> \/ targetsBatchID # id
    /\ searchBatchID = <<>> \/ searchBatchID # id

\* the step handles the end of a batch
BatchEnds == op'.call = "HandleMessage" /\ op'.cmd = "BATCH" /\ ~op'.start

\* C24 as stated: a BATCH end whose reference, empty or not, is that of no
\* open batch changes nothing and returns no event.
C24_UnknownEndIsNoOp ==
    [][(BatchEnds /\ MatchesNoBatch(op'.id)) =>
          /\ ev' = NoEvent /\ err' = Nil
          /\ UNCHANGED <<chBatches, chReqs, targetsBatchID, searchBatchID, accVars>>
      ]_vars

\* C24: a BATCH end whose reference is not empty and is that of no open batch
\* changes nothing and returns no event.  With the empty reference and no
\* history-targets batch open it returns a HistoryTargetsEvent and removes the
\* guard of the history-targets request in flight; with the empty reference,
\* a history-targets batch open and no search batch open it returns a
\* SearchEvent.
C24_UnknownNamedEndIsNoOp ==
    [][(BatchEnds /\ MatchesNoBatch(op'.id)) =>
          IF op'.id # <<>>
          THEN /\ ev' = NoEvent /\ err' = Nil
               /\ UNCHANGED <<chBatches, chReqs, targetsBatchID, searchBatchID, accVars>>
          ELSE IF targetsBatchID = <<>>
          THEN /\ ev' = [type |-> "HistoryTargetsEvent", Targets |-> targetsBatch]
               /\ chReqs' = chReqs \ {<<>>}
               /\ UNCHANGED <<chBatches, targetsBatchID, searchBatchID, accVars>>
          ELSE IF searchBatchID = <<>>
          THEN /\ ev' = [type |-> "SearchEvent", Messages |-> searchBatch]
               /\ UNCHANGED <<chBatches, chReqs, targetsBatchID, searchBatchID, accVars>>
          ELSE /\ ev' = NoEvent /\ err' = Nil
               /\ UNCHANGED <<chBatches, chReqs, targetsBatchID, searchBatchID, accVars>>
      ]_vars

\* the end of a batch "2" while the batches open are "1": nothing returned,
\* the request in flight still guarded
C24_Witness ==
    /\ op.call = "HandleMessage" /\ op.cmd = "BATCH" /\ ~op.start /\ op.id = <<50>>
    /\ <<49>> \in DOMAIN chBatches /\ targetsBatchID = <<49>>
    /\ <<>> \in chReqs
    /\ ev = NoEvent

-----------------------------------------------------------------------------
(* QUIT of a user who is typing *)

\* HandleMessage for "@+typing=<typing> :<name> TAGMSG <target>", not in a batch
TagMsg(name, target, typing) ==
    LET targetCf == Casemap(target)
        whoCf == Casemap(name)
    IN  /\ Alive
        /\ typings' = IF IsMe(name) THEN typings
                      ELSE IF typing = "active" THEN typingsActive(targetCf, whoCf)
                      ELSE IF typing \in {"paused", "done"}
                      THEN typingsDone(targetCf, whoCf)
                      ELSE typings
        /\ Returns([call |-> "HandleMessage", cmd |-> "TAGMSG", prefix |-> name,
                    target |-> target, typing |-> typing], NoEvent, Nil, <<>>)
        /\ UNCHANGED <<sessVars, enabledCaps, featVars, rosterVars, histVars,
                       typingStamps, typingLog, now, arg>>

InitQuit ==
    /\ regEvents = NotCounted
    /\ unanswered = NotTracked
    /\ NewSession(NickM, NickM, <<>>, "nil", TRUE)
    /\ arg = Nil

\* The server declares its casemapping before any channel is joined.  "[" and
\* "{" are one nick under rfc1459 and two under ascii.
NextQuit ==
    \/ \E value \in {"ascii", "rfc1459"} :
          channels = EmptyMap /\ users = EmptyMap /\ Isupport("CASEMAPPING", value)
    \/ \E name \in {NickM, NameLB}, channel \in {ChanA, ChanLB} : Join(name, channel)
    \/ Part(NameLB, ChanA)
    \/ MonitorAdd(NameLB)
    \/ \E name \in {NickM, NameLB}, target \in {ChanA, ChanLB, NickM},
          typing \in {"active", "done"} : TagMsg(name, target, typing)
    \/ \E name \in {NickM, NameLB, NameLC} : Quit(name)

SpecQuit == InitQuit /\ [][NextQuit]_vars

\* the step is a QUIT of a user of the roster
QuitOfKnown ==
    /\ op'.call = "HandleMessage" /\ op'.cmd = "QUIT"
    /\ Casemap(op'.prefix) \in DOMAIN users

\* C25: after a QUIT of a user of the roster, the user's record is a member of
\* no channel, no typing state is left for the user in any channel it was a
\* member of, and the UserQuitEvent returned names the user and exactly the
\* channels it was a member of before; the other channels' members and the
\* typing state of other users and targets are unchanged.
C25_QuitLeavesEveryChannel ==
    [][QuitOfKnown =>
        LET whoCf == Casemap(op'.prefix)
            u == users[whoCf]
            left == ChannelsOf(u, channels)
        IN  /\ DOMAIN channels' = DOMAIN channels
            /\ \A c \in DOMAIN channels' :
                  /\ u \notin DOMAIN channels'[c].Members
                  /\ DOMAIN channels'[c].Members = DOMAIN channels[c].Members \ {u}
            /\ \A c \in left : <<c, whoCf>> \notin typings'
            /\ \A t \in typings : (t[1] \notin left \/ t[2] # whoCf) => t \in typings'
            /\ typings' \subseteq typings
            /\ ev'.type = "UserQuitEvent" /\ err' = Nil
            /\ ev'.User = recs[u].Name
            /\ ev'.Channels = {channels[c].Name : c \in left}
      ]_vars

\* "[" quit, spelled "{", as a member of both channels: the event names both
\* channels, and the only typing state left is that of its direct messages
C25_Witness ==
    /\ op.call = "HandleMessage" /\ op.cmd = "QUIT" /\ op.prefix = NameLC
    /\ ev.type = "UserQuitEvent" /\ ev.Channels = {ChanA, ChanLB}
    /\ DOMAIN channels = {Casemap(ChanA), Casemap(ChanLB)}
    /\ typings = {<<NickM, NameLC>>}
    /\ casemap = "rfc1459"

-----------------------------------------------------------------------------
(* CAP ACK: the SASL handshake and the NAMES requests *)

\* longest list of capabilities in a CAP ACK
MaxCaps == 2

AckEntries ==
    {[Name |-> name, Enable |-> enable] :
        name \in {"sasl", "multi-prefix", "batch"}, enable \in BOOLEAN}

\* the lists ParseCaps returns: an entry "-name" has Enable false
RECURSIVE AckListsUpTo(_)
AckListsUpTo(n) ==
    IF n = 0 THEN {<<>>}
    ELSE LET shorter == AckListsUpTo(n - 1)
         IN  shorter \cup {Append(l, e) : l \in {t \in shorter : Len(t) = n - 1},
                                          e \in AckEntries}

AckLists == AckListsUpTo(MaxCaps) \ {<<>>}

InitCap ==
    /\ regEvents = NotCounted
    /\ unanswered = NotTracked
    /\ \E authKind \in {"nil", "early", "late"} :
          NewSession(NickM, NickM, <<>>, authKind, TRUE)
    /\ arg = Nil

NextCap ==
    \/ \E channel \in {ChanA, ChanLB} : Join(NickM, channel)
    \/ \E channel \in {ChanA, ChanLB} : Part(NickM, channel)
    \/ \E caps \in AckLists : CapAck(caps)

SpecCap == InitCap /\ [][NextCap]_vars

\* the last operation handled a CAP ACK
AfterCapAck == op.call = "HandleMessage" /\ op.cmd = "CAP" /\ op.sub = "ACK"

\* the number of messages of the command among those pushed
Sent(cmd) == Cardinality({i \in DOMAIN sent : sent[i].cmd = cmd})

\* C26 as stated: a CAP ACK pushes one AUTHENTICATE <mechanism> for each entry
\* that enables sasl while an authenticator is pending, and none for any other
\* entry, so none for "-sasl".
C26_HandshakeIffSaslEnabled ==
    AfterCapAck =>
        Sent("AUTHENTICATE") =
            IF auth # Nil
            THEN Cardinality({i \in DOMAIN op.caps :
                                 op.caps[i].Name = "sasl" /\ op.caps[i].Enable})
            ELSE 0

\* C26: a CAP ACK pushes one AUTHENTICATE <mechanism> for each entry that names
\* sasl, enabling or disabling, while an authenticator is pending, and none
\* for any other entry or without an authenticator.
C26_HandshakeIffSaslListed ==
    AfterCapAck =>
        /\ Sent("AUTHENTICATE") =
              IF auth # Nil
              THEN Cardinality({i \in DOMAIN op.caps : op.caps[i].Name = "sasl"})
              ELSE 0
        /\ \A i \in DOMAIN sent :
              sent[i].cmd = "AUTHENTICATE" => sent[i].arg = "mech"

\* the ACK of "-sasl" with an authenticator pending pushed the handshake and
\* left sasl disabled
C26_Witness ==
    /\ AfterCapAck /\ auth # Nil
    /\ op.caps = <<[Name |-> "sasl", Enable |-> FALSE]>>
    /\ sent = <<[cmd |-> "AUTHENTICATE", arg |-> "mech"]>>
    /\ "sasl" \notin enabledCaps

\* the number of NAMES commands pushed for the channel
Names(channel) ==
    Cardinality({i \in DOMAIN sent :
                    sent[i].cmd = "NAMES" /\ sent[i].channel = channel})

\* C27 as stated: a CAP ACK that enables multi-prefix pushes exactly one NAMES
\* for each joined channel; a CAP ACK that does not enable it, and any CAP ACK
\* while no channel is joined, pushes no NAMES.
C27_NamesIffMultiPrefixEnabled ==
    AfterCapAck =>
        /\ \A c \in DOMAIN channels :
              Names(c) = IF \E i \in DOMAIN op.caps :
                               op.caps[i].Name = "multi-prefix" /\ op.caps[i].Enable
                         THEN 1 ELSE 0
        /\ Sent("NAMES") = Cardinality({i \in DOMAIN sent :
                                           sent[i].cmd = "NAMES"
                                           /\ sent[i].channel \in DOMAIN channels})

\* C27: a CAP ACK pushes, for each of its entries that names multi-prefix,
\* enabling or disabling, one NAMES for each joined channel, and no other
\* NAMES; so none while no channel is joined, and none for a list that does
\* not name multi-prefix.
C27_NamesIffMultiPrefixListed ==
    AfterCapAck =>
        /\ \A c \in DOMAIN channels :
              Names(c) = Cardinality({i \in DOMAIN op.caps :
                                         op.caps[i].Name = "multi-prefix"})
        /\ Sent("NAMES") = Cardinality({i \in DOMAIN sent :
                                           sent[i].cmd = "NAMES"
                                           /\ sent[i].channel \in DOMAIN channels})

\* the ACK of "-multi-prefix" with two channels joined pushed a NAMES for each
C27_Witness ==
    /\ AfterCapAck
    /\ op.caps = <<[Name |-> "multi-prefix", Enable |-> FALSE]>>
    /\ Cardinality(DOMAIN channels) = 2
    /\ Len(sent) = 2
    /\ \A c \in DOMAIN channels : Names(c) = 1
    /\ "multi-prefix" \notin enabledCaps

-----------------------------------------------------------------------------
(* ISUPPORT: PREFIX tokens of every shape *)

\* even-length ASCII values that are not "(" modes ")" symbols
MalformedPrefixes == {<<111, 118, 64, 43>>, <<41, 40>>, <<40, 111, 118, 41, 64, 43, 43, 43>>}

\* odd-length values, with and without a byte above MaxASCII
OddPrefixes == {<<40>>, <<40, 111, 118, 41, 64>>, <<40, 111, 41, 64, 195>>}

RejectedPrefixes == OtherPrefixes \cup OddPrefixes

PrefixValues == WellFormedPrefixes \cup MalformedPrefixes \cup RejectedPrefixes

\* the values paired with another one in the same message
PairedPrefixes ==
    {PrefixOV, PrefixValue(<<111>>, <<64>>)} \cup MalformedPrefixes \cup RejectedPrefixes

\* one PREFIX token, or two of which one at least is not well formed
PrefixLists ==
    {<< <<"PREFIX", value>> >> : value \in PrefixValues}
    \cup {<< <<"PREFIX", a>>, <<"PREFIX", b>> >> :
               a \in MalformedPrefixes \cup RejectedPrefixes, b \in PairedPrefixes}
    \cup {<< <<"PREFIX", a>>, <<"PREFIX", b>> >> :
               a \in PairedPrefixes, b \in MalformedPrefixes \cup RejectedPrefixes}

InitPrefix ==
    /\ regEvents = NotCounted
    /\ unanswered = NotTracked
    /\ NewSession(NickM, NickM, <<>>, "nil", TRUE)
    /\ arg = Nil

NextPrefix == \E features \in PrefixLists : IsupportTokens(features)

SpecPrefix == InitPrefix /\ [][NextPrefix]_vars

\* the value has odd length or holds a byte above MaxASCII
Rejected(value) ==
    Len(value) % 2 = 1 \/ \E i \in 1..Len(value) : value[i] > MaxASCII

\* the values of the PREFIX tokens that are not rejected, in order
RECURSIVE Accepted(_)
Accepted(features) ==
    IF features = <<>> THEN <<>>
    ELSE IF Head(features)[1] = "PREFIX" /\ ~Rejected(Head(features)[2])
    THEN <<Head(features)[2]>> \o Accepted(Tail(features))
    ELSE Accepted(Tail(features))

\* C30: in every state the mode letters and the symbols of the membership
\* prefixes have the same length; a 005 whose PREFIX values all have odd
\* length or hold a byte above MaxASCII leaves both strings unchanged, and a
\* rejected value after others in the same message keeps what the last value
\* that is not rejected set: strings of half its length minus one.
C30_PrefixStringsParallel ==
    /\ [](Len(prefixModes) = Len(prefixSymbols))
    /\ [][(op'.call = "HandleMessage" /\ op'.cmd = "005" /\ "features" \in DOMAIN op') =>
            LET accepted == Accepted(op'.features)
            IN  /\ accepted = <<>> =>
                      prefixModes' = prefixModes /\ prefixSymbols' = prefixSymbols
                /\ (accepted # <<>> /\ fault' = "none") =>
                      /\ Len(prefixModes') = (Len(accepted[Len(accepted)]) \div 2) - 1
                      /\ prefixModes' = SubSeq(accepted[Len(accepted)], 2,
                                               Len(accepted[Len(accepted)]) \div 2)]_vars

\* with the prefixes set to "o" and "@", a 005 carrying PREFIX=(o)@\xc3 and
\* PREFIX=(ov)@ was handled and left them
C30_Witness ==
    /\ op.call = "HandleMessage" /\ op.cmd = "005" /\ "features" \in DOMAIN op
    /\ op.features = << <<"PREFIX", <<40, 111, 41, 64, 195>> >>,
                        <<"PREFIX", <<40, 111, 118, 41, 64>> >> >>
    /\ fault = "none"
    /\ prefixModes = <<111>> /\ prefixSymbols = <<64>>

-----------------------------------------------------------------------------
(* CHATHISTORY: the limit of a history request *)

\* the CHATHISTORY tokens: 50, 150 and a text that Atoi rejects
HistoryLimits == {<<50>>, <<150>>, <<>>}

\* the limits asked of WithLimit
AskedLimits == {10, 75, 200}

InitLimit ==
    /\ regEvents = NotCounted
    /\ unanswered = NotTracked
    /\ NewSession(NickM, NickM, <<>>, "nil", TRUE)
    /\ arg = Nil

NextLimit ==
    \/ \E caps \in HistAcks : CapAck(caps)
    \/ \E value \in HistoryLimits : Isupport("CHATHISTORY", value)
    \/ \E target \in {NameLB, ChanA} : NewHistoryRequest(target)
    \/ \E limit \in AskedLimits : WithLimit(limit)
    \/ RequestAfter
    \/ RequestBefore
    \/ RequestTargets

SpecLimit == InitLimit /\ [][NextLimit]_vars

\* the CHATHISTORY commands the last operation pushed
Chathistory == {i \in 1..Len(sent) : sent[i].cmd = "CHATHISTORY"}

\* C31: the limit of every CHATHISTORY command pushed is the history limit
\* that NewHistoryRequest read when WithLimit was not called on the request,
\* and else the minimum of the limit asked of the last WithLimit and the
\* history limit that call read; it never exceeds the history limit read by
\* the call that set it, and it is at most the history limit of the session
\* when no CHATHISTORY token changed that since.
C31_LimitIsClamped ==
    \A i \in Chathistory :
        /\ request # <<>>
        /\ sent[i].limit = IF request[1].asked = <<>> THEN request[1].read
                           ELSE Min(request[1].asked[1], request[1].read)
        /\ sent[i].limit <= request[1].read
        /\ request[1].read = historyLimit => sent[i].limit <= historyLimit

\* a request that asked for 200 under the limit 100 was sent with the limit
\* 100 after CHATHISTORY=50 arrived
C31_Witness ==
    /\ op.call = "doRequest" /\ fault = "none"
    /\ Chathistory # {}
    /\ sent[1].limit = 100
    /\ request[1].asked = <<200>>
    /\ historyLimit = 50

-----------------------------------------------------------------------------
(* The session's own nick and the casemapping *)

InitMe ==
    /\ regEvents = NotCounted
    /\ unanswered = NotTracked
    /\ \E nickname \in {NickM, NameLB} : NewSession(nickname, NickM, <<>>, "nil", TRUE)
    /\ arg = Nil

NextMe ==
    \/ \E name \in {NickM, NameLB} : ~registered /\ Welcome(<<name>>)
    \/ \E name \in {NickM, NameLB, NameLC}, newNick \in {NickM, NameLB} :
          Nick(name, newNick)
    \/ \E name \in {NickM, NameLB} : Join(name, ChanA)
    \/ \E value \in {"ascii", "rfc1459"} : Isupport("CASEMAPPING", value)

SpecMe == InitMe /\ [][NextMe]_vars

\* C32 as stated: once the welcome message has been processed, NickCf() is
\* Casemap(Nick()) in every state, so that IsMe(Nick()) holds, also after a
\* CASEMAPPING token changed the casemapping.
C32_NickCfIsCasemapOfNick ==
    registered => nickCf = Casemap(nick) /\ IsMe(nick)

\* C32, what holds: once the welcome message has been processed, NickCf() is
\* the form of Nick() under the casemapping that was in force when the nick
\* was last set, hence under one of the two casemappings, and IsMe(Nick())
\* holds for a nick the two casemappings map alike; the welcome establishes
\* NickCf() = Casemap(Nick()) and every step that leaves the casemapping
\* unchanged keeps it.
C32_NickCfUnderCasemapInForce ==
    /\ [](registered =>
            /\ nickCf \in {CasemapASCII(nick), CasemapRFC1459(nick)}
            /\ CasemapASCII(nick) = CasemapRFC1459(nick) => IsMe(nick))
    /\ [][/\ (~registered /\ registered') => nickCf' = Casemap(nick)'
          /\ (registered /\ nickCf = Casemap(nick) /\ casemap' = casemap) =>
                 nickCf' = Casemap(nick)']_vars

\* welcomed as "[" under rfc1459, the session then received CASEMAPPING=ascii:
\* NickCf() is "{" and IsMe("[") is false
C32_Witness ==
    /\ registered /\ fault = "none"
    /\ op.call = "HandleMessage" /\ op.cmd = "005"
    /\ casemap = "ascii"
    /\ nick = NameLB /\ nickCf = NameLC
    /\ ~IsMe(nick)

-----------------------------------------------------------------------------
(* Channel members and the roster *)

InitMembers ==
    /\ regEvents = NotCounted
    /\ unanswered = NotTracked
    /\ NewSession(NickM, NickM, <<>>, "nil", TRUE)
    /\ arg = Nil

\* the messages arrive in any order; the casemapping stays the default one
NextMembers ==
    \/ Welcome(<<NickM>>)
    \/ \E name \in {NickM, NameLB} : Join(name, ChanA)
    \/ \E names \in NameReplies : Namreply(ChanA, names)
    \/ \E name \in {NickM, NameLC}, newNick \in {NickM, NameLB} : Nick(name, newNick)
    \/ \E name \in {NickM, NameLC} : Part(name, ChanA)
    \/ \E name \in {NickM, NameLC} : Kick(ChanA, name)
    \/ \E name \in {NickM, NameLC} : Quit(name)
    \/ MonitorAdd(NameLB)
    \/ MonOnline(NameLB)
    \/ MonOffline(NameLC)

SpecMembers == InitMembers /\ [][NextMembers]_vars

\* member u of a channel is the record the roster holds under the casemapped
\* form of u's nick
InRoster(u) ==
    /\ u \in DOMAIN recs
    /\ Casemap(recs[u].Name) \in DOMAIN users
    /\ users[Casemap(recs[u].Name)] = u

\* C33 as stated: in every state every member of every joined channel is the
\* record the roster holds under the casemapped form of the member's nick.
C33_MembersAreRosterRecords ==
    \A c \in DOMAIN channels : \A u \in DOMAIN channels[c].Members : InRoster(u)

\* the step stores a record under a key of the roster that holds another
\* one: a welcome for a nick the roster has, or a NICK onto such a nick
ReplacesRecord ==
    /\ op'.call = "HandleMessage"
    /\ \/ op'.cmd = "001" /\ Casemap(op'.params[1]) \in DOMAIN users
       \/ /\ op'.cmd = "NICK"
          /\ Casemap(op'.prefix) \in DOMAIN users
          /\ Casemap(op'.nick) \in DOMAIN users
          /\ Casemap(op'.nick) # Casemap(op'.prefix)

\* C33, what holds: every member of a channel is a live user record, and
\* the members stay the roster's records under their casemapped nicks over
\* every step of JOIN, NAMES, NICK, PART, KICK, QUIT, welcome and MONITOR
\* except a welcome for a nick that the roster holds and a NICK onto a nick
\* that the roster holds under another key.
C33_MembersStayRosterRecords ==
    /\ [](\A c \in DOMAIN channels : DOMAIN channels[c].Members \subseteq DOMAIN recs)
    /\ [][(C33_MembersAreRosterRecords /\ ~ReplacesRecord) =>
              \A c \in DOMAIN channels' : \A u \in DOMAIN channels'[c].Members :
                  /\ u \in DOMAIN recs'
                  /\ Casemap(recs'[u].Name) \in DOMAIN users'
                  /\ users'[Casemap(recs'[u].Name)] = u]_vars

\* the session joined "#" and then processed its welcome: the roster holds a
\* new record for "m" and the channel still holds the one of the JOIN
C33_Witness ==
    /\ op.call = "HandleMessage" /\ op.cmd = "001" /\ fault = "none"
    /\ ChanA \in DOMAIN channels
    /\ NickM \in DOMAIN users
    /\ \E u \in DOMAIN channels[ChanA].Members :
          recs[u].Name = NickM /\ users[NickM] # u

-----------------------------------------------------------------------------
(* Calls on a closed session *)

\* the builders that push one message whatever the state of the session
Builders == {"SendRaw", "Join", "Part", "ChangeTopic", "Quit", "ChangeNick", "ChangeMode"}

\* Session.SendRaw, Join, Part, ChangeTopic, Quit, ChangeNick, ChangeMode:
\* s.out <- NewMessage(...)
Builder(name) ==
    /\ Alive
    /\ Done([call |-> name], <<[cmd |-> name]>>)
    /\ UNCHANGED <<sessVars, enabledCaps, featVars, rosterVars, histVars, typVars,
                   now, arg>>

InitClosed ==
    /\ regEvents = NotCounted
    /\ unanswered = NotTracked
    /\ NewSession(NickM, NickM, <<>>, "nil", TRUE)
    /\ arg = Nil

\* the dispatch caller and the builder callers, one call at a time, in any
\* order
NextClosed ==
    \/ CloseCall
    \/ Error
    \/ ~registered /\ Welcome(<<NickM>>)
    \/ \E params \in {<<>>, <<NameB>>} : Ping(params)
    \/ \E caps \in TypingAcks : CapAck(caps)
    \/ Typing(NameLB)
    \/ PrivMsg(NameLB, <<97>>)
    \/ \E name \in Builders : Builder(name)

SpecClosed == InitClosed /\ [][NextClosed]_vars

\* C35 as stated: once the session is closed, no later dispatch call and no
\* builder call sends on the output channel.
C35_NoSendAfterClose ==
    [][closed => sent' = <<>>]_vars

\* C35, what holds: Close and an inbound ERROR close the output channel and
\* send nothing; on a closed session a call that sends nothing returns as on
\* an open one, and every call that sends (a builder, the PONG reply to PING,
\* a typing notification) sends on the closed channel and panics.
C35_SendAfterClosePanics ==
    /\ [](closed => outClosed = 1)
    /\ [][/\ (op'.call = "Close" \/ (op'.call = "HandleMessage" /\ op'.cmd = "ERROR")) =>
                closed' /\ sent' = <<>> /\ fault' = "none"
          /\ closed => (fault' = "panic" <=> sent' # <<>>)
          /\ (closed /\ op'.call \in Builders) => fault' = "panic"
          /\ (closed /\ op'.call = "HandleMessage" /\ op'.cmd = "PING"
                /\ op'.params # <<>>) => fault' = "panic"]_vars

\* the PONG reply to a PING handled after Close was sent on the closed
\* channel
C35_Witness ==
    /\ closed /\ outClosed = 1
    /\ op.call = "HandleMessage" /\ op.cmd = "PING"
    /\ sent = <<[cmd |-> "PONG", payload |-> NameB]>>
    /\ fault = "panic"

-----------------------------------------------------------------------------
(* RegisteredEvent *)

\* the token lists of the 005 messages of a server's welcome burst
BurstTokens ==
    {<< <<"CASEMAPPING", "ascii">>, <<"LINELEN", 300>> >>,
     << <<"MONITOR", 100>> >>,
     << <<"PREFIX", PrefixOV>> >>}

InitRegistered ==
    /\ regEvents = 0
    /\ unanswered = NotTracked
    /\ \E authKind \in {"nil", "late"} : NewSession(NickM, NickM, <<>>, authKind, TRUE)
    /\ arg = Nil

NextRegistered ==
    \/ \E params \in RegParams : Welcome(params)
    \/ \E features \in BurstTokens : IsupportTokens(features)
    \/ \E params \in RegParams : SaslSuccess(params)
    \/ \E params \in RegParams : Ping(params)
    \/ \E name \in {NickM, NameLB} : Join(name, ChanA)
    \/ Error

SpecRegistered == InitRegistered /\ [][NextRegistered]_vars

\* C38 as stated: over any sequence of inbound messages a RegisteredEvent is
\* returned at most once per session.
C38_RegisteredEventOnce == regEvents <= 1

\* C38, what holds: HandleMessage returns a RegisteredEvent for every 005 it
\* handles, before or after the welcome and however many came before, and
\* for no other message: the welcome itself returns no event.
C38_RegisteredEventPerIsupport ==
    [][/\ ev'.type = "RegisteredEvent" <=>
              (op'.call = "HandleMessage" /\ op'.cmd = "005")
       /\ regEvents' = IF op'.call = "HandleMessage" /\ op'.cmd = "005"
                          /\ regEvents < MaxEnds
                       THEN regEvents + 1 ELSE regEvents
       /\ (op'.call = "HandleMessage" /\ op'.cmd = "001") => ev'.type = Nil]_vars

\* the second 005 of the burst after the welcome returned a second
\* RegisteredEvent
C38_Witness ==
    /\ registered /\ fault = "none"
    /\ op.call = "HandleMessage" /\ op.cmd = "005"
    /\ op.features = << <<"MONITOR", 100>> >>
    /\ casemap = "ascii" /\ monitor
    /\ ev.type = "RegisteredEvent"
    /\ regEvents = 2

-----------------------------------------------------------------------------
(* Capability negotiation with a server that answers *)

\* HandleMessage for "CAP <nick> NAK :<caps>": nothing is done
CapNak(caps) ==
    /\ Alive
    /\ Returns([call |-> "HandleMessage", cmd |-> "CAP", sub |-> "NAK", caps |-> caps],
               NoEvent, Nil, <<>>)
    /\ UNCHANGED <<sessVars, enabledCaps, featVars, rosterVars, histVars, typVars,
                   now, arg>>

\* HandleMessage for "AUTHENTICATE <payload>"; respondOk tells whether
\* s.auth.Respond(payload) succeeds
Authenticate(params, respondOk) ==
    LET call == [call |-> "HandleMessage", cmd |-> "AUTHENTICATE",
                 params |-> params, respondOk |-> respondOk]
    IN  /\ Alive
        /\ IF auth = Nil
           THEN Returns(call, NoEvent, Nil, <<>>)
           ELSE IF Len(params) < 1
           THEN Returns(call, NoEvent, NotEnoughParams, <<>>)
           ELSE Returns(call, NoEvent, Nil,
                        <<[cmd |-> "AUTHENTICATE",
                           arg |-> IF respondOk THEN "res" ELSE "*"]>>)
        /\ UNCHANGED <<sessVars, enabledCaps, featVars, rosterVars, histVars,
                       typVars, now, arg>>

\* the capability lists of the server's answers: sasl alone, two of the
\* other capabilities requested, and the three together
AnswerLists ==
    {<<[Name |-> "sasl", Enable |-> TRUE]>>,
     <<[Name |-> "batch", Enable |-> TRUE], [Name |-> "server-time", Enable |-> TRUE]>>,
     <<[Name |-> "batch", Enable |-> TRUE], [Name |-> "sasl", Enable |-> TRUE],
       [Name |-> "server-time", Enable |-> TRUE]>>}

\* the capabilities named by the answers of the server
Answered == {"sasl", "batch", "server-time"}

\* the server answers CAP REQs that are waiting for an answer, with ACK or NAK
AnswerReq ==
    \E caps \in AnswerLists :
        /\ {caps[i].Name : i \in DOMAIN caps} \subseteq unanswered.caps
        /\ \/ CapAck(caps)
           \/ CapNak(caps)

\* the server answers an AUTHENTICATE that is waiting for an answer: with a
\* challenge, up to MaxChallenges of them, or with the numeric that ends the
\* exchange
AnswerAuthenticate ==
    /\ unanswered.auths > 0
    /\ \/ /\ unanswered.challenges < MaxChallenges
          /\ \E respondOk \in BOOLEAN : Authenticate(<<<<43>>>>, respondOk)
       \/ SaslSuccess(<<NickM>>)
       \/ \E code \in SaslFailNumerics : SaslFailure(code, <<NickM, NameB>>)

\* the server welcomes the session once capability negotiation has ended
AnswerEnd ==
    /\ capEnds >= 1
    /\ ~registered
    /\ Welcome(<<NickM>>)

InitSasl ==
    /\ regEvents = NotCounted
    /\ unanswered = [tracked |-> TRUE, caps |-> Answered, auths |-> 0, challenges |-> 0]
    /\ \E id \in {<<>>, <<49>>} : NewSession(NickM, NickM, id, "late", TRUE)
    /\ arg = Nil

NextSasl ==
    \/ AnswerReq
    \/ AnswerAuthenticate
    \/ AnswerEnd

\* the server answers every CAP REQ and every AUTHENTICATE it receives, and
\* the session handles every message it receives
SpecSasl ==
    /\ InitSasl /\ [][NextSasl]_vars
    /\ WF_vars(AnswerReq) /\ WF_vars(AnswerAuthenticate)

\* C39 as stated: with a non-eager authenticator supplied, CAP END is
\* eventually pushed in every run in which the server answers each CAP REQ
\* with ACK or NAK and every AUTHENTICATE, the runs in which it NAKs sasl
\* included.
C39_NegotiationEnds == <>(capEnds >= 1)

\* C39, what holds: with a non-eager authenticator supplied, a CAP NAK pushes
\* nothing, CAP END is pushed only after the server ACKed sasl, and it is
\* eventually pushed in every run in which the server ACKs sasl, answers every
\* AUTHENTICATE and sends a bounded number of challenges; once every request
\* is answered without an ACK of sasl, CAP END is never pushed and the
\* session stays unregistered.
C39_NegotiationEndsWhenSaslAcked ==
    /\ [](capEnds >= 1 => "sasl" \in enabledCaps)
    /\ [](op.call = "HandleMessage" /\ op.cmd = "CAP" /\ op.sub = "NAK" => sent = <<>>)
    /\ ("sasl" \in enabledCaps ~> capEnds >= 1)
    /\ [](unanswered.caps = {} /\ "sasl" \notin enabledCaps =>
              [](capEnds = 0 /\ ~registered /\ unanswered.auths = 0))

\* the server NAKed sasl and answered every other request: nothing is left
\* to answer, no AUTHENTICATE was sent and CAP END was not pushed
C39_Witness ==
    /\ auth = "pending"
    /\ op.call = "HandleMessage" /\ op.cmd = "CAP" /\ op.sub = "NAK"
    /\ \E i \in DOMAIN op.caps : op.caps[i].Name = "sasl"
    /\ unanswered.caps = {} /\ unanswered.auths = 0
    /\ "sasl" \notin enabledCaps
    /\ capEnds = 0 /\ ~registered
    /\ ~ENABLED NextSasl

-----------------------------------------------------------------------------
(* ISUPPORT: PREFIX with an empty value *)

\* the last message handled was a 005 with a PREFIX token of empty value
EmptyPrefixHandled ==
    /\ op.call = "HandleMessage" /\ op.cmd = "005" /\ "features" \in DOMAIN op
    /\ \E i \in DOMAIN op.features : op.features[i] = <<"PREFIX", <<>> >>

\* C40 as stated: a PREFIX token with an empty value is processed without
\* fault and leaves the mode letters and the symbols empty.
C40_EmptyPrefixClears ==
    EmptyPrefixHandled =>
        fault = "none" /\ prefixModes = <<>> /\ prefixSymbols = <<>>

\* C40, what holds: a PREFIX token with an empty value empties the mode
\* letters and the symbols and then the call panics, returning no event; of
\* the 005 messages with PREFIX tokens these are the only ones that panic.
C40_EmptyPrefixClearsAndPanics ==
    /\ [](EmptyPrefixHandled =>
              /\ fault = "panic"
              /\ prefixModes = <<>> /\ prefixSymbols = <<>>
              /\ ev = NoEvent /\ err = Nil)
    /\ [](fault = "panic" => EmptyPrefixHandled)

\* PREFIX= alone in a 005: the call panicked with both strings emptied
C40_Witness ==
    /\ op.call = "HandleMessage" /\ op.cmd = "005" /\ "features" \in DOMAIN op
    /\ op.features = << <<"PREFIX", <<>> >> >>
    /\ fault = "panic"
    /\ prefixModes = <<>> /\ prefixSymbols = <<>>
    /\ ev = NoEvent

====
